---------------------------- MODULE Spec2Model ----------------------------
(***************************************************************************)
(* A model of the dirac-swift-api request handlers                         *)
(* (src/src/api/routers/file_processing.py) and of the SWIFTProcessor      *)
(* they delegate to (src/src/api/processing/data_processing.py).           *)
(*                                                                         *)
(* One request is served at a time: a handler action takes the server from *)
(* "idle" to "done", recording the request, the outcome (a returned value  *)
(* or a raised exception, with the ordered side effects the handler        *)
(* performed: alias lookups, existence checks, file opens, probes, range   *)
(* reads, closes).  Respond discards the per-request objects.              *)
(*                                                                         *)
(* Spec studies single requests on a file that does not change.  What      *)
(* outlives a request, the memo of create_swift_metadata and the cookie    *)
(* file of the authenticator, is studied by SpecState, whose requests are  *)
(* interleaved with changes of the file.                                   *)
(***************************************************************************)
EXTENDS Integers, Sequences, FiniteSets, TLC

VARIABLES dataset_map, phase, request, response, open_handles,
          file_content, metadata_cache, cookies_file, last_success

vars == <<dataset_map, phase, request, response, open_handles,
          file_content, metadata_cache, cookies_file, last_success>>

\* What outlives a request besides the alias table: the content of the
\* file, the memo of create_swift_metadata, the cookie file, and (a history
\* variable) the cookies of the latest attempt the upstream answered 200.
persistent == <<file_content, metadata_cache, cookies_file, last_success>>

(***************************************************************************)
(* Bounds of the model.                                                    *)
(***************************************************************************)
Rows == 3          \* rows of every non-empty field of the sample file
Comps == 2         \* components per row of the multi-component fields
MaxMaskSize == 3   \* largest mask_size a request declares
MaxColumn == 2     \* largest column selector a request supplies
MaxVersion == 2    \* versions of the content of the file

(***************************************************************************)
(* Python values.  None is a distinguished string; a value is truthy when  *)
(* it is neither None nor the empty string.                                *)
(***************************************************************************)
None == "None"

Truthy(s) == s # None /\ s # ""

\* columns: None is the empty set, the integer c is {c}.
NoColumns == {}

ColumnSelectors == {NoColumns} \cup {{c} : c \in 0..MaxColumn}

ColumnOf(columns) == CHOOSE c \in columns : TRUE

(***************************************************************************)
(* The backing store.                                                      *)
(***************************************************************************)
SnapPath == "/data/snap.hdf5"
RelPath == "rel/snap.hdf5"
MissingPath == "/data/missing.hdf5"

Paths == {SnapPath, RelPath, MissingPath}

\* Path.resolve(): an absolute path is unchanged, a relative one is made
\* absolute against the working directory.
PathResolve(p) == IF p = RelPath THEN "/cwd/rel/snap.hdf5" ELSE p

\* Path.exists()
PathExists(p) == p \in {SnapPath, RelPath, PathResolve(RelPath)}

\* The alias tables the service is configured with.
AliasKeys == {"sample_file", "downloaded_file"}

AliasMaps ==
    { [k \in {} |-> None],
      [k \in {"sample_file"} |-> SnapPath],
      [k \in {"sample_file"} |-> MissingPath],
      [k \in {"sample_file"} |-> ""],
      [k \in AliasKeys |-> IF k = "sample_file" THEN SnapPath ELSE MissingPath] }

\* dict.get(key): None when the key is absent.
DictGet(map, key) == IF key \in DOMAIN map THEN map[key] ELSE None


(***************************************************************************)
(* Arrays.  An ndarray is its dtype, its shape and its elements in         *)
(* row-major order.  NoArray is Python's None where an array is expected.  *)
(*                                                                         *)
(* A numpy dtype is its byte order ("=" native, ">" big-endian on the      *)
(* little-endian host the service runs on, "|" not applicable), its kind   *)
(* ("i" integer, "f" floating, "O" object) and its item size in bytes.     *)
(***************************************************************************)
RECURSIVE Prod(_)
Prod(shape) == IF shape = <<>> THEN 1 ELSE Head(shape) * Prod(Tail(shape))

DType(byteorder, kind, itemsize) ==
    [byteorder |-> byteorder, kind |-> kind, itemsize |-> itemsize]

NoDType == DType("", "", 0)

Float32 == DType("=", "f", 4)
Float32BigEndian == DType(">", "f", 4)
Float64 == DType("=", "f", 8)
Int64 == DType("=", "i", 8)
Object == DType("|", "O", 8)

NdArray(dtype, shape, flat) ==
    [isNone |-> FALSE, dtype |-> dtype, shape |-> shape, flat |-> flat]

NoArray == [isNone |-> TRUE, dtype |-> NoDType, shape |-> <<>>, flat |-> <<>>]

(***************************************************************************)
(* The content of the HDF5 files on the backing store.  Every existing     *)
(* file holds the same fields; element n (row-major) of a field holds the  *)
(* value n, so that every element of a field is distinct.                  *)
(***************************************************************************)
DensityField == "PartType0/Density"
SingleField == "PartType0/Single"
CoordinatesField == "PartType0/Coordinates"
TensorField == "PartType0/Tensor"
EmptyField == "PartType0/Empty"
AbsentField == "PartType0/NotARealField"

FieldNames ==
    {DensityField, SingleField, CoordinatesField, TensorField, EmptyField, AbsentField}

H5Has(field) == field \in FieldNames \ {AbsentField}

H5Shape(field) ==
    CASE field = DensityField -> <<Rows>>
      [] field = SingleField -> <<Rows, 1>>
      [] field = CoordinatesField -> <<Rows, Comps>>
      [] field = TensorField -> <<Rows, Comps, Comps>>
      [] OTHER -> <<0>>

H5DType(field) == IF field = DensityField THEN Float64 ELSE Float32

H5Flat(field) == [n \in 1..Prod(H5Shape(field)) |-> n - 1]

\* handle[field][:]: the whole dataset.
H5Full(field) == NdArray(H5DType(field), H5Shape(field), H5Flat(field))

\* handle[field][:, c] for a dataset of two or more dimensions: component c
\* of every row; the second dimension is dropped.
H5Column(field, c) ==
    LET shape == H5Shape(field)
        k == shape[2]
        inner == Prod(SubSeq(shape, 3, Len(shape)))
        src == H5Flat(field)
        out == <<shape[1]>> \o SubSeq(shape, 3, Len(shape))
    IN NdArray(H5DType(field), out,
               [n \in 1..(shape[1] * inner) |->
                   src[((n - 1) \div inner) * k * inner + c * inner
                       + ((n - 1) % inner) + 1]])

\* handle[field][0]: the first row, by its dtype and its number of elements.
\* exc is "KeyError" when the field is absent and "IndexError" when the
\* field has no row.
H5FirstValue(field) ==
    IF ~H5Has(field)
    THEN [exc |-> "KeyError", dtype |-> NoDType, size |-> 0]
    ELSE IF H5Shape(field)[1] = 0
    THEN [exc |-> "IndexError", dtype |-> NoDType, size |-> 0]
    ELSE [exc |-> "", dtype |-> H5DType(field),
          size |-> Prod(Tail(H5Shape(field)))]

(***************************************************************************)
(* Outcomes.  Every function of the program is modelled by an operator     *)
(* that yields a frame: whether it returned or raised, the exception class *)
(* with its HTTP status code (0 for an exception that is no HTTPException) *)
(* and the parts its message was formatted from, the returned value, and   *)
(* the side effects it performed, in order.                                *)
(***************************************************************************)
NoPrim ==
    [called |-> FALSE, output_shape |-> <<>>, output_type |-> NoDType,
     mask |-> <<>>, columns |-> NoColumns, written |-> 0]

\* The dictionary generate_dict_from_ndarray returns.
NoPayload ==
    [array |-> [t |-> "null", n |-> 0, s |-> "", items |-> <<>>], dtype |-> ""]

\* The metadata object a serialisation was given, as it was when encoding
\* started: its units object and the attributes read from the file.
NoMetadata ==
    [built |-> FALSE, units |-> [cls |-> "", handle |-> "absent"], header |-> <<>>]

Frame(status, exc, code, msg, kind, path, array, events) ==
    [status |-> status, exc |-> exc, code |-> code, msg |-> msg,
     kind |-> kind, path |-> path, array |-> array,
     file_path |-> None, prim |-> NoPrim, payload |-> NoPayload,
     metadata |-> NoMetadata, result |-> <<>>, argument |-> <<>>,
     session |-> "",
     events |-> events]

Raise(exc, code, msg, events) ==
    Frame("raise", exc, code, msg, "", "", NoArray, events)

ReturnNone(events) == Frame("return", "", 0, <<>>, "None", "", NoArray, events)

ReturnPath(kind, path, events) ==
    Frame("return", "", 0, <<>>, kind, path, NoArray, events)

ReturnArray(kind, array, events) ==
    Frame("return", "", 0, <<>>, kind, "", array, events)

\* A message carries x when x is one of the parts it was formatted from.
Carries(msg, x) == \E i \in 1..Len(msg) : msg[i] = x

HTTP_400_BAD_REQUEST == 400

(***************************************************************************)
(* SWIFTProcessor.retrieve_filename                                        *)
(***************************************************************************)
AliasNotFoundMsg == <<"Dataset alias not found in dataset map.">>

\* A faulty variant: the lookup result is returned unchecked, None for a missing alias.
retrieve_filename_unchecked(data_alias_map, dataset_alias) ==
    LET mapped_filename == DictGet(data_alias_map, dataset_alias)
    IN  IF mapped_filename = None
        THEN ReturnNone(<<"lookup">>)
        ELSE ReturnPath("str", mapped_filename, <<"lookup">>)

\* A faulty variant: an empty alias is looked up like any other.
retrieve_filename_looks_up_empty(data_alias_map, dataset_alias) ==
    IF dataset_alias # None
    THEN LET mapped_filename == DictGet(data_alias_map, dataset_alias)
         IN IF ~Truthy(mapped_filename)
            THEN Raise("SWIFTProcessorError", 0, AliasNotFoundMsg, <<"lookup">>)
            ELSE ReturnPath("str", mapped_filename, <<"lookup">>)
    ELSE ReturnNone(<<>>)

retrieve_filename(data_alias_map, dataset_alias) ==
    IF Truthy(dataset_alias)
    THEN LET mapped_filename == DictGet(data_alias_map, dataset_alias)
         IN IF ~Truthy(mapped_filename)
            THEN Raise("SWIFTProcessorError", 0, AliasNotFoundMsg, <<"lookup">>)
            ELSE ReturnPath("str", mapped_filename, <<"lookup">>)
    ELSE ReturnNone(<<>>)

(***************************************************************************)
(* get_file_path                                                           *)
(***************************************************************************)
NoFilenameMsg == <<"SWIFT filename or file alias not found.">>

PathNotFoundMsg(file_path) ==
    <<"SWIFT filename not found at the provided path: ", file_path, ".">>

\* A faulty variant: the alias takes precedence over the filename.
locate_alias_first(data_alias_map, filename, alias) ==
    IF Truthy(alias)
    THEN retrieve_filename(data_alias_map, alias)
    ELSE IF Truthy(filename)
    THEN ReturnPath("str", filename, <<>>)
    ELSE ReturnNone(<<>>)

\* Lines 149-153: the path of the reference, its alias consulted only when
\* the reference has no filename.
locate(data_alias_map, filename, alias) ==
    IF Truthy(filename)
    THEN ReturnPath("str", filename, <<>>)
    ELSE retrieve_filename(data_alias_map, alias)

\* A faulty variant: the path is returned without the existence check.
check_file_path_unchecked(located) ==
    IF located.status = "raise"
    THEN located
    ELSE IF located.kind = "None"
    THEN [Raise("SWIFTDataSpecException", HTTP_400_BAD_REQUEST, NoFilenameMsg,
                located.events) EXCEPT !.file_path = None]
    ELSE [ReturnPath("Path", located.path, located.events)
            EXCEPT !.file_path = located.path]

\* Lines 154-164 applied to the outcome of lines 149-153.
check_file_path(located) ==
    IF located.status = "raise"
    THEN located
    ELSE IF located.kind = "None"
    THEN [Raise("SWIFTDataSpecException", HTTP_400_BAD_REQUEST, NoFilenameMsg,
                located.events) EXCEPT !.file_path = None]
    ELSE IF ~PathExists(located.path)
    THEN [Raise("SWIFTDataSpecException", HTTP_400_BAD_REQUEST,
                PathNotFoundMsg(located.path),
                located.events \o <<"exists">>)
            EXCEPT !.file_path = located.path]
    ELSE [ReturnPath("Path", located.path, located.events \o <<"exists">>)
            EXCEPT !.file_path = located.path]

get_file_path(data_alias_map, filename, alias) ==
    check_file_path(locate(data_alias_map, filename, alias))

(***************************************************************************)
(* JSON.  A JSON value is a tagged tree: an integer, a float (a whole      *)
(* number n standing for n.0), a string, a mapping, null, or a list of     *)
(* JSON values.                                                            *)
(***************************************************************************)
JInt(n) == [t |-> "int", n |-> n, s |-> "", items |-> <<>>]
JFloat(n) == [t |-> "float", n |-> n, s |-> "", items |-> <<>>]
JStr(s) == [t |-> "str", n |-> 0, s |-> s, items |-> <<>>]
JDict == [t |-> "dict", n |-> 0, s |-> "", items |-> <<>>]
JNull == [t |-> "null", n |-> 0, s |-> "", items |-> <<>>]
JList(items) == [t |-> "list", n |-> 0, s |-> "", items |-> items]

IntList(ints) == JList([i \in 1..Len(ints) |-> JInt(ints[i])])
FloatList(ints) == JList([i \in 1..Len(ints) |-> JFloat(ints[i])])
IntRows(rows) == JList([i \in 1..Len(rows) |-> IntList(rows[i])])
FloatRows(rows) == JList([i \in 1..Len(rows) |-> FloatList(rows[i])])

\* json.dumps: the text of a JSON value, items separated by ", ".
RECURSIVE json_dumps(_)
RECURSIVE json_dumps_items(_)
json_dumps(v) ==
    CASE v.t = "int" -> ToString(v.n)
      [] v.t = "float" -> ToString(v.n) \o ".0"
      [] v.t = "str" -> "\"" \o v.s \o "\""
      [] v.t = "dict" -> "{\"a\": null}"
      [] v.t = "null" -> "null"
      [] OTHER -> "[" \o json_dumps_items(v.items) \o "]"

json_dumps_items(items) ==
    IF items = <<>> THEN ""
    ELSE IF Len(items) = 1 THEN json_dumps(items[1])
    ELSE json_dumps(items[1]) \o ", " \o json_dumps_items(Tail(items))

(***************************************************************************)
(* numpy.  np.dtype(name), dtype.str, ndarray.tolist and np.asarray.       *)
(***************************************************************************)
\* np.dtype(data_type): NoDType when numpy does not understand the name.  A
\* little-endian tag names the native order of the host.
np_dtype(data_type) ==
    CASE data_type \in {"float32", "<f4", "f4"} -> Float32
      [] data_type = ">f4" -> Float32BigEndian
      [] data_type \in {"float64", "<f8"} -> Float64
      [] data_type \in {"int64", "<i8"} -> Int64
      [] data_type \in {"object", "O", "|O"} -> Object
      [] OTHER -> NoDType

\* A faulty variant: the tag is built from kind and size, in the host's order.
dtype_str_native(dtype) ==
    (IF dtype.byteorder = "|" THEN "|" ELSE "<")
    \o dtype.kind \o (IF dtype.kind = "O" THEN "" ELSE ToString(dtype.itemsize))

\* dtype.str: the byte-order marker ("<" for the native order of the
\* little-endian host), the kind and the item size; "|O" for objects.
dtype_str(dtype) ==
    (IF dtype.byteorder = "=" THEN "<" ELSE dtype.byteorder)
    \o dtype.kind \o (IF dtype.kind = "O" THEN "" ELSE ToString(dtype.itemsize))

\* The cells of an array's buffer: those that were written, and the cells
\* np.empty allocated and nothing wrote, which hold whatever was in memory.
Uninitialised == 0 - 1

Cells(array) ==
    [i \in 1..Prod(array.shape) |->
        IF i <= Len(array.flat) THEN array.flat[i] ELSE Uninitialised]

\* The Python object tolist makes of a cell.
Item(dtype, cell) ==
    CASE dtype.kind = "O" -> cell
      [] dtype.kind = "f" -> JFloat(cell)
      [] OTHER -> JInt(cell)

RECURSIVE Nest(_, _)
Nest(shape, items) ==
    IF shape = <<>> THEN items[1]
    ELSE LET stride == Prod(Tail(shape))
         IN JList([i \in 1..shape[1] |->
                     Nest(Tail(shape),
                          SubSeq(items, (i - 1) * stride + 1, i * stride))])

\* array.tolist(): nested lists, one level per dimension.
tolist(array) ==
    LET cells == Cells(array)
    IN  Nest(array.shape, [i \in 1..Len(cells) |-> Item(array.dtype, cells[i])])

IsScalar(v) == v.t # "list"

\* The longest prefix the shapes of a sequence have in common.
CommonPrefix(shapes) ==
    LET first == shapes[1]
        agree(j) == \A i \in 1..Len(shapes) :
                       /\ Len(shapes[i]) >= j
                       /\ SubSeq(shapes[i], 1, j) = SubSeq(first, 1, j)
        k == CHOOSE j \in 0..Len(first) :
                /\ agree(j)
                /\ \A l \in 0..Len(first) : agree(l) => l <= j
    IN  SubSeq(first, 1, k)

\* The dimensions np.asarray discovers: it descends while the sequences of a
\* level all have one length.
RECURSIVE DiscoverShape(_)
DiscoverShape(v) ==
    IF IsScalar(v) THEN <<>>
    ELSE IF v.items = <<>> THEN <<0>>
    ELSE <<Len(v.items)>>
         \o CommonPrefix([i \in 1..Len(v.items) |-> DiscoverShape(v.items[i])])

\* The values found at a depth, in row-major order.
RECURSIVE Leaves(_, _)
RECURSIVE LeavesOf(_, _)
Leaves(v, depth) == IF depth = 0 THEN <<v>> ELSE LeavesOf(v.items, depth - 1)

LeavesOf(items, depth) ==
    IF items = <<>> THEN <<>>
    ELSE Leaves(Head(items), depth) \o LeavesOf(Tail(items), depth)

\* The sequences of every level have one length: no leaf is a sequence.
Homogeneous(v) ==
    LET leaves == Leaves(v, Len(DiscoverShape(v)))
    IN  \A i \in 1..Len(leaves) : IsScalar(leaves[i])

IsNumber(v) == v.t \in {"int", "float"}

\* A faulty variant: of ragged data without a dtype an object array is made.
np_asarray_ragged_to_object(value, data_type) ==
    LET dtype == np_dtype(data_type)
        shape == DiscoverShape(value)
        leaves == Leaves(value, Len(shape))
        numbers == \A i \in 1..Len(leaves) : IsNumber(leaves[i])
    IN  IF data_type # None /\ dtype = NoDType
        THEN [exc |-> "TypeError", array |-> NoArray]
        ELSE IF (data_type # None /\ dtype.kind = "O")
                \/ (data_type = None /\ ~(Homogeneous(value) /\ numbers))
        THEN [exc |-> "", array |-> NdArray(Object, shape, leaves)]
        ELSE IF ~Homogeneous(value)
        THEN [exc |-> "ValueError", array |-> NoArray]
        ELSE IF ~numbers
        THEN [exc |-> "TypeError", array |-> NoArray]
        ELSE [exc |-> "",
              array |-> NdArray(IF data_type # None THEN dtype
                                ELSE IF leaves # <<>>
                                        /\ \A i \in 1..Len(leaves) : leaves[i].t = "int"
                                THEN Int64 ELSE Float64,
                                shape, [i \in 1..Len(leaves) |-> leaves[i].n])]

\* np.asarray(value, dtype=data_type).  A name numpy does not understand is
\* a TypeError; an object dtype takes the values as they are; sequences of
\* different lengths at one level are a ValueError; a value that is no
\* number is a TypeError under a numeric dtype and makes an object array
\* when no dtype is given.
np_asarray(value, data_type) ==
    LET dtype == np_dtype(data_type)
        shape == DiscoverShape(value)
        leaves == Leaves(value, Len(shape))
        numbers == \A i \in 1..Len(leaves) : IsNumber(leaves[i])
    IN  IF data_type # None /\ dtype = NoDType
        THEN [exc |-> "TypeError", array |-> NoArray]
        ELSE IF data_type # None /\ dtype.kind = "O"
        THEN [exc |-> "", array |-> NdArray(Object, shape, leaves)]
        ELSE IF ~Homogeneous(value)
        THEN [exc |-> "ValueError", array |-> NoArray]
        ELSE IF ~numbers
        THEN IF data_type = None
             THEN [exc |-> "", array |-> NdArray(Object, shape, leaves)]
             ELSE [exc |-> "TypeError", array |-> NoArray]
        ELSE [exc |-> "",
              array |-> NdArray(IF data_type # None THEN dtype
                                ELSE IF leaves # <<>>
                                        /\ \A i \in 1..Len(leaves) : leaves[i].t = "int"
                                THEN Int64 ELSE Float64,
                                shape, [i \in 1..Len(leaves) |-> leaves[i].n])]

(***************************************************************************)
(* The arrays the codec is given, and the JSON documents of the model:     *)
(* the masks requests supply, ragged and mixed documents, and the lists    *)
(* tolist makes of the arrays.                                             *)
(***************************************************************************)
MaxDim == 2        \* length of every non-empty dimension of an encoded array

ArrayShapes ==
    {<<>>, <<0>>, <<MaxDim>>, <<MaxDim, MaxDim>>, <<0, MaxDim>>, <<MaxDim, 0>>,
     <<MaxDim, 1>>}

NumericArrays ==
    {NdArray(dtype, shape, [n \in 1..Prod(shape) |-> n + 6]) :
        dtype \in {Float32, Float32BigEndian, Int64}, shape \in ArrayShapes}

\* Object arrays: a mapping beside a number, lists of different lengths, and
\* lists of one length.
ObjectArrays ==
    {NdArray(Object, <<2>>, <<JDict, JInt(3)>>),
     NdArray(Object, <<2>>, <<IntList(<<1>>), IntList(<<2, 3>>)>>),
     NdArray(Object, <<2>>, <<IntList(<<1, 2>>), IntList(<<3, 4>>)>>)}

EncodeInputs == NumericArrays \cup ObjectArrays

MaskDocs ==
    {IntRows(<< <<0, 2>> >>), IntRows(<< <<1, 3>>, <<0, 1>> >>),
     IntRows(<< <<0, 2>>, <<1, 2>> >>), IntRows(<< <<2, 5>> >>),
     IntRows(<< <<0>>, <<1, 2>> >>), JList(<<>>), JDict}

RaggedDocs ==
    {FloatRows(<< <<337>>, <<234, 233>>, <<355>> >>),
     IntRows(<< <<0>>, <<1, 2>> >>),
     JList(<<JInt(1), IntList(<<2, 3>>)>>),
     JList(<<IntRows(<< <<1>>, <<2, 3>> >>), IntRows(<< <<4, 5>>, <<6, 7>> >>)>>)}

MixedDocs == {JList(<<JDict, JInt(3)>>), JList(<<IntList(<<1>>), JDict>>)}

JsonDocs ==
    MaskDocs \cup RaggedDocs \cup MixedDocs \cup {tolist(x) : x \in EncodeInputs}

JsonTextOf == [v \in JsonDocs |-> json_dumps(v)]

\* The texts the codec is given: the text of every document, and one that
\* is no JSON.
CodecTexts == {JsonTextOf[v] : v \in JsonDocs} \cup {"not json"}

\* The JSON texts a request supplies as its mask.
MaskTexts ==
    {"[[0, 2]]", "[[1, 3], [0, 1]]", "[[0, 2], [1, 2]]", "[[2, 5]]",
     "[[0], [1, 2]]", "[]", "{\"a\": null}", "not json"}

\* The document each text of a document is the text of.
JsonValueOf ==
    [text \in {JsonTextOf[v] : v \in JsonDocs} |->
        CHOOSE v \in JsonDocs : JsonTextOf[v] = text]

\* json.loads: the document the text is the text of; a JSONDecodeError when
\* it is the text of none.
json_loads(text) ==
    IF text \in DOMAIN JsonValueOf
    THEN [exc |-> "", value |-> JsonValueOf[text]]
    ELSE [exc |-> "JSONDecodeError", value |-> JNull]

\* The dtype names a request supplies with its mask, and those the codec is
\* called with directly.
DTypeNames == {None, "int64", "nt64"}

CodecDTypes == DTypeNames \cup {"float32", ">f4", "object"}

\* np.asarray of every document under every dtype text of the model.
AsarrayOf ==
    [value \in JsonDocs,
     data_type \in CodecDTypes \cup {dtype_str(x.dtype) : x \in EncodeInputs} |->
        np_asarray(value, data_type)]

(***************************************************************************)
(* SWIFTProcessor.load_ndarray_from_json                                   *)
(***************************************************************************)
InvalidDTypeMsg == <<"Invalid data type provided for conversion to numpy array. ">>
InvalidArrayMsg == <<"Invalid array data for numpy.asarray(). ">>

\* A faulty variant: every failure of np.asarray is reported as invalid array data.
asarray_error_always_array_data(exc, events) ==
    Raise("SWIFTProcessorError", 0, InvalidArrayMsg, events)

\* Lines 87-92: the two except clauses.
asarray_error(exc, events) ==
    IF exc = "TypeError"
    THEN Raise("SWIFTProcessorError", 0, InvalidDTypeMsg, events)
    ELSE Raise("SWIFTProcessorError", 0, InvalidArrayMsg, events)

\* Line 83 is outside the try: a text that is no JSON raises json's own
\* JSONDecodeError.
load_ndarray_from_json(json_array, data_type) ==
    LET loaded_json == json_loads(json_array)
        converted == AsarrayOf[loaded_json.value, data_type]
    IN  IF loaded_json.exc # ""
        THEN Raise(loaded_json.exc, 0, <<>>, <<"decode">>)
        ELSE IF converted.exc # ""
        THEN asarray_error(converted.exc, <<"decode">>)
        ELSE ReturnArray("ndarray", converted.array, <<"decode">>)

(***************************************************************************)
(* swiftsimio.accelerated.read_ranges_from_file, the range-read primitive. *)
(* It walks the intervals of the mask in the order given and writes each   *)
(* selected row range, projected to the selected column when one is given, *)
(* contiguously into a buffer of output_shape.  An interval outside the    *)
(* rows of the field, a selection that does not fit the buffer, or a mask  *)
(* that is no list of pairs makes it fail.                                 *)
(***************************************************************************)
\* The elements row i (from 0) of a field contributes under a selector.
RowElems(field, i, columns) ==
    LET shape == H5Shape(field)
        stride == Prod(Tail(shape))
        src == H5Flat(field)
    IN  IF Len(shape) = 1 THEN <<src[i + 1]>>
        ELSE IF columns = NoColumns
        THEN SubSeq(src, i * stride + 1, (i + 1) * stride)
        ELSE LET inner == Prod(SubSeq(shape, 3, Len(shape)))
                 c == ColumnOf(columns)
             IN SubSeq(src, i * stride + c * inner + 1, i * stride + (c + 1) * inner)

RECURSIVE RangeElems(_, _, _, _)
RangeElems(field, start, end, columns) ==
    IF start >= end THEN <<>>
    ELSE RowElems(field, start, columns) \o RangeElems(field, start + 1, end, columns)

RECURSIVE Gather(_, _, _)
Gather(field, ranges, columns) ==
    IF ranges = <<>> THEN <<>>
    ELSE RangeElems(field, Head(ranges)[1], Head(ranges)[2], columns)
         \o Gather(field, Tail(ranges), columns)

RECURSIVE RangeRows(_)
RangeRows(ranges) ==
    IF ranges = <<>> THEN 0
    ELSE (Head(ranges)[2] - Head(ranges)[1]) + RangeRows(Tail(ranges))

\* The mask array as a sequence of rows.
MaskRows(mask) ==
    IF Len(mask.shape) # 2 THEN <<>>
    ELSE [i \in 1..mask.shape[1] |->
            SubSeq(mask.flat, (i - 1) * mask.shape[2] + 1, i * mask.shape[2])]

read_ranges_from_file(field, mask, output_shape, output_type, columns) ==
    LET shape == H5Shape(field)
        ranges == MaskRows(mask)
        per_row == IF Len(shape) = 1 THEN 1
                   ELSE IF columns = NoColumns THEN Prod(Tail(shape))
                   ELSE Prod(SubSeq(shape, 3, Len(shape)))
        well_formed == /\ mask.dtype.kind # "O"
                       /\ \/ mask.shape = <<0>>
                          \/ Len(mask.shape) = 2 /\ mask.shape[2] = 2
        in_bounds == \A i \in 1..Len(ranges) :
                        /\ 0 <= ranges[i][1]
                        /\ ranges[i][1] <= ranges[i][2]
                        /\ ranges[i][2] <= shape[1]
        column_ok == \/ columns = NoColumns
                     \/ Len(shape) = 1
                     \/ ColumnOf(columns) < shape[2]
        fits == /\ RangeRows(ranges) <= output_shape[1]
                /\ per_row = Prod(Tail(output_shape))
    IN  IF well_formed /\ in_bounds /\ column_ok /\ fits
        THEN [exc |-> "", written |-> RangeRows(ranges),
              array |-> NdArray(output_type, output_shape,
                                Gather(field, ranges, columns))]
        ELSE [exc |-> "ReadRangesError", written |-> 0, array |-> NoArray]

(***************************************************************************)
(* SWIFTProcessor.get_array_masked                                         *)
(***************************************************************************)
NoMaskMsg == <<"No mask provided!">>

FieldNotFoundMsg(field, filename) ==
    <<"Field ", field, " not found in ", filename, ".">>

\* A faulty variant: the missing field is swallowed and None returned.
field_key_error_returns_none(field, filename, events) == ReturnNone(events)

\* Lines 166-168: what the handler of KeyError does.
field_key_error(field, filename, events) ==
    Raise("SWIFTProcessorError", 0, FieldNotFoundMsg(field, filename), events)

\* Lines 155-158: the shape of the output buffer.
output_shape_of(mask_size, output_size, use_columns) ==
    IF output_size # 1 /\ ~use_columns
    THEN <<mask_size, output_size>>
    ELSE <<mask_size>>

\* A faulty variant: the selector is tested for truth, so that column 0 counts as none.
use_columns_truthy(columns) == columns # NoColumns /\ columns # {0}

\* Line 144.
use_columns_of(columns) == columns # NoColumns

\* A faulty variant: the file is closed by hand after the body, so that a
\* body that raises leaves it open.
with_h5py_file_close_on_return(body) ==
    [body EXCEPT !.events = <<"open">> \o @
                            \o (IF body.status = "return" THEN <<"close">> ELSE <<>>)]

\* Lines 149 and 192: `with h5py.File(filename, "r") as handle:`.  The file
\* is opened, the body runs, and the file is closed however the body ends.
with_h5py_file(body) == [body EXCEPT !.events = <<"open">> \o @ \o <<"close">>]

\* Lines 150-168: the body of the with statement, the file being open.
\* A faulty variant: the lengths of the intervals are checked against
\* mask_size before the file is read.
masked_body_validates(filename, field, mask, mask_size, columns) ==
    LET use_columns == use_columns_of(columns)
        first_value == H5FirstValue(field)
    IN  IF RangeRows(MaskRows(mask)) # mask_size
        THEN Raise("SWIFTProcessorError", 0, <<"Mask size mismatch">>, <<>>)
        ELSE IF first_value.exc = "KeyError"
        THEN field_key_error(field, filename, <<"probe">>)
        ELSE IF first_value.exc # ""
        THEN Raise(first_value.exc, 0, <<>>, <<"probe">>)
        ELSE LET output_type == first_value.dtype
                 output_size == first_value.size
                 output_shape == output_shape_of(mask_size, output_size, use_columns)
                 read == read_ranges_from_file(field, mask, output_shape,
                                               output_type, columns)
                 call == [called |-> TRUE, output_shape |-> output_shape,
                          output_type |-> output_type, mask |-> MaskRows(mask),
                          columns |-> columns, written |-> read.written]
                 done == <<"probe", "read_ranges">>
             IN IF read.exc = ""
                THEN [ReturnArray("ndarray", read.array, done) EXCEPT !.prim = call]
                ELSE [Raise(read.exc, 0, <<>>, done) EXCEPT !.prim = call]

masked_body(filename, field, mask, mask_size, columns) ==
    LET use_columns == use_columns_of(columns)
        first_value == H5FirstValue(field)
    IN  IF first_value.exc = "KeyError"
        THEN field_key_error(field, filename, <<"probe">>)
        ELSE IF first_value.exc # ""
        THEN Raise(first_value.exc, 0, <<>>, <<"probe">>)
        ELSE LET output_type == first_value.dtype
                 output_size == first_value.size
                 output_shape == output_shape_of(mask_size, output_size, use_columns)
                 read == read_ranges_from_file(field, mask, output_shape,
                                               output_type, columns)
                 call == [called |-> TRUE, output_shape |-> output_shape,
                          output_type |-> output_type, mask |-> MaskRows(mask),
                          columns |-> columns, written |-> read.written]
                 done == <<"probe", "read_ranges">>
             IN IF read.exc = ""
                THEN [ReturnArray("ndarray", read.array, done) EXCEPT !.prim = call]
                ELSE [Raise(read.exc, 0, <<>>, done) EXCEPT !.prim = call]

\* Lines 149-168: the with statement, after the steps that gave `events`.
masked_with_handle(filename, field, mask, mask_size, columns, events) ==
    LET outcome == with_h5py_file(masked_body(filename, field, mask, mask_size,
                                              columns))
    IN  [outcome EXCEPT !.events = events \o @]

\* A faulty variant: only None counts as a missing mask, the empty text does not.
mask_missing_only_none(mask_json) == mask_json = None

\* Line 136: not mask_json.
mask_missing(mask_json) == ~Truthy(mask_json)

get_array_masked(filename, field, mask_json, mask_data_type, mask_size, columns) ==
    IF mask_missing(mask_json)
    THEN Raise("SWIFTProcessorError", 0, NoMaskMsg, <<>>)
    ELSE LET mask == load_ndarray_from_json(mask_json, mask_data_type)
         IN IF mask.status = "raise" THEN mask
            ELSE IF ~PathExists(filename)
            THEN Raise("FileNotFoundError", 0, <<>>, mask.events \o <<"open_failed">>)
            ELSE masked_with_handle(filename, field, mask.array, mask_size,
                                    columns, mask.events)

(***************************************************************************)
(* SWIFTProcessor.get_array_unmasked                                       *)
(***************************************************************************)
\* A faulty variant: the column selector is ignored.
unmasked_selection_all_columns(field, columns) ==
    [exc |-> "", array |-> H5Full(field)]

\* Lines 194-198: the selection read from the open file.
unmasked_selection(field, columns) ==
    IF Len(H5Shape(field)) > 1
    THEN IF columns = NoColumns
         THEN [exc |-> "", array |-> H5Full(field)]
         ELSE IF ColumnOf(columns) >= H5Shape(field)[2]
         THEN [exc |-> "IndexError", array |-> NoArray]
         ELSE [exc |-> "", array |-> H5Column(field, ColumnOf(columns))]
    ELSE [exc |-> "", array |-> H5Full(field)]

\* A faulty variant: the missing field is reported as the masked read does.
unmasked_key_error_raises(field, filename, events) ==
    Raise("SWIFTProcessorError", 0, FieldNotFoundMsg(field, filename), events)

\* Lines 201-203: what the handler of KeyError does.
unmasked_key_error(field, filename, events) == ReturnNone(events)

\* Lines 193-203: the body of the with statement, the file being open.
unmasked_body(filename, field, columns) ==
    IF ~H5Has(field)
    THEN unmasked_key_error(field, filename, <<"log_error">>)
    ELSE LET result_array == unmasked_selection(field, columns)
         IN IF result_array.exc # ""
            THEN Raise(result_array.exc, 0, <<>>, <<"read">>)
            ELSE ReturnArray("ndarray", result_array.array, <<"read">>)

get_array_unmasked(filename, field, columns) ==
    IF ~PathExists(filename)
    THEN Raise("FileNotFoundError", 0, <<>>, <<"open_failed">>)
    ELSE with_h5py_file(unmasked_body(filename, field, columns))

(***************************************************************************)
(* SWIFTProcessor.generate_dict_from_ndarray: the dictionary of the nested *)
(* lists of the array and its dtype tag; the frame keeps the array that    *)
(* was encoded.  Python's None has no dtype attribute.                     *)
(***************************************************************************)
generate_dict_from_ndarray(array, events) ==
    IF array.isNone
    THEN Raise("AttributeError", 0, <<>>, events)
    ELSE LET data_type == dtype_str(array.dtype)
         IN [ReturnArray("dict", array, events \o <<"encode">>)
                EXCEPT !.payload = [array |-> tolist(array), dtype |-> data_type]]

(***************************************************************************)
(* Python objects met as the leaves of a metadata dictionary: the class,   *)
(* a number (the value of a scalar), a text (the unit of a quantity, the   *)
(* characters of a string, the date of a timestamp), a second text (the    *)
(* codec of a byte string, the time of a timestamp) and the array of an    *)
(* ndarray.                                                                *)
(***************************************************************************)
Obj(cls, n, s, extra, array) ==
    [cls |-> cls, n |-> n, s |-> s, extra |-> extra, array |-> array]

\* The classes an instance of a class is an instance of.
Bases(cls) ==
    CASE cls = "unyt_quantity" -> {"unyt_quantity", "unyt_array", "np.ndarray"}
      [] cls = "unyt_array" -> {"unyt_array", "np.ndarray"}
      [] cls = "np.bytes_" -> {"np.bytes_", "bytes"}
      [] cls = "np.float64" -> {"np.float64", "float"}
      [] OTHER -> {cls}

isinstance(obj, cls) == cls \in Bases(obj.cls)

\* The classes json serialises without calling the encoder's default.
NativeJson == {"str", "int", "float"}

IsNative(obj) == Bases(obj.cls) \cap NativeJson # {}

QuantityObj == Obj("unyt_quantity", 5, "Mpc", "", NdArray(Float64, <<>>, <<5>>))
UnytArrayObj == Obj("unyt_array", 0, "Mpc", "", NdArray(Float64, <<3>>, <<142, 142, 142>>))
ArrayObj == Obj("np.ndarray", 0, "", "", NdArray(Int64, <<3>>, <<1, 2, 3>>))
BytesObj == Obj("np.bytes_", 0, "test string", "utf-8", NoArray)
UndecodableBytesObj == Obj("np.bytes_", 0, "", "not utf-8", NoArray)
PyBytesObj == Obj("bytes", 0, "test string", "utf-8", NoArray)
UnitsObj == Obj("RemoteSWIFTUnits", 0, "'mass': unyt_quantity(1.e+10, 'Msun')", "", NoArray)
MassTableObj == Obj("MassTable", 0, "", "", NoArray)
ParticleTypeObj == Obj("SWIFTParticleTypeMetadata", 0, "", "", NoArray)
Int32Obj == Obj("np.int32", 5, "", "", NoArray)
Int64Obj == Obj("np.int64", 4, "", "", NoArray)
DatetimeObj == Obj("datetime", 0, "2023-09-10", "12:00:00.550000", NoArray)
Float32Obj == Obj("np.float32", 1, "", "", NoArray)
Float64Obj == Obj("np.float64", 1, "", "", NoArray)
SetObj == Obj("set", 0, "", "", NoArray)
LockObj == Obj("_thread.lock", 0, "", "", NoArray)
StrObj == Obj("str", 0, "text", "", NoArray)
IntObj == Obj("int", 150, "", "", NoArray)
NoObj == Obj("", 0, "", "", NoArray)

\* The objects json hands to the encoder's default.
LeafObjects ==
    {QuantityObj, UnytArrayObj, ArrayObj, BytesObj, UndecodableBytesObj,
     PyBytesObj, UnitsObj, MassTableObj, ParticleTypeObj, Int32Obj, Int64Obj,
     DatetimeObj, Float32Obj, SetObj, LockObj}

\* repr(obj) of an object that defines no __repr__ of its own data.
Repr(obj) == "<" \o obj.cls \o " object>"

EncodeOk(value) == [exc |-> "", msg |-> <<>>, value |-> value]

EncodeError(exc, msg) == [exc |-> exc, msg |-> msg, value |-> JNull]

\* json.JSONEncoder.default: the generic encoder knows no object.
json_encoder_default(obj) ==
    EncodeError("TypeError",
                <<"Object of type ", obj.cls, " is not JSON serializable">>)

\* A faulty variant: arrays are tested for first, so that a quantity, which
\* is an array, loses its unit.
default_ndarray_first(obj) ==
    IF isinstance(obj, "np.ndarray") THEN EncodeOk(tolist(obj.array))
    ELSE IF isinstance(obj, "np.bytes_")
    THEN IF obj.extra = "utf-8" THEN EncodeOk(JStr(obj.s))
         ELSE EncodeError("UnicodeDecodeError", <<"'utf-8' codec can't decode">>)
    ELSE IF isinstance(obj, "RemoteSWIFTUnits")
    THEN EncodeOk(JStr("{" \o obj.s \o "}"))
    ELSE IF isinstance(obj, "MassTable") THEN EncodeOk(JStr(Repr(obj)))
    ELSE IF isinstance(obj, "SWIFTParticleTypeMetadata") THEN EncodeOk(JStr(Repr(obj)))
    ELSE IF isinstance(obj, "np.int32") THEN EncodeOk(JInt(obj.n))
    ELSE IF isinstance(obj, "np.int64") THEN EncodeOk(JInt(obj.n))
    ELSE IF isinstance(obj, "datetime") THEN EncodeOk(JStr(obj.s \o "T" \o obj.extra))
    ELSE json_encoder_default(obj)

\* SWIFTMetadataEncoder.default, lines 35-53: the isinstance chain.
SWIFTMetadataEncoder_default(obj) ==
    IF isinstance(obj, "unyt_quantity")
    THEN EncodeOk(JStr(ToString(obj.n) \o " " \o obj.s))
    ELSE IF isinstance(obj, "np.ndarray") THEN EncodeOk(tolist(obj.array))
    ELSE IF isinstance(obj, "np.bytes_")
    THEN IF obj.extra = "utf-8" THEN EncodeOk(JStr(obj.s))
         ELSE EncodeError("UnicodeDecodeError", <<"'utf-8' codec can't decode">>)
    ELSE IF isinstance(obj, "RemoteSWIFTUnits")
    THEN EncodeOk(JStr("{" \o obj.s \o "}"))
    ELSE IF isinstance(obj, "MassTable") THEN EncodeOk(JStr(Repr(obj)))
    ELSE IF isinstance(obj, "SWIFTParticleTypeMetadata") THEN EncodeOk(JStr(Repr(obj)))
    ELSE IF isinstance(obj, "np.int32") THEN EncodeOk(JInt(obj.n))
    ELSE IF isinstance(obj, "np.int64") THEN EncodeOk(JInt(obj.n))
    ELSE IF isinstance(obj, "datetime") THEN EncodeOk(JStr(obj.s \o "T" \o obj.extra))
    ELSE json_encoder_default(obj)

Encoders == {"SWIFTMetadataEncoder", "JSONEncoder"}

encoder_default(encoder, obj) ==
    IF encoder = "SWIFTMetadataEncoder"
    THEN SWIFTMetadataEncoder_default(obj)
    ELSE json_encoder_default(obj)

\* json's own serialisation of a str, an int or a float.
native_json(obj) ==
    CASE isinstance(obj, "str") -> JStr(obj.s)
      [] isinstance(obj, "int") -> JInt(obj.n)
      [] OTHER -> JFloat(obj.n)

\* json.dumps of the values of a dictionary, in the order of its keys: the
\* first value that fails ends the serialisation.
RECURSIVE json_dumps_values(_, _)
json_dumps_values(leaves, encoder) ==
    IF leaves = <<>> THEN [exc |-> "", msg |-> <<>>, values |-> <<>>]
    ELSE LET first == IF IsNative(Head(leaves))
                      THEN EncodeOk(native_json(Head(leaves)))
                      ELSE encoder_default(encoder, Head(leaves))
             rest == json_dumps_values(Tail(leaves), encoder)
         IN IF first.exc # ""
            THEN [exc |-> first.exc, msg |-> first.msg, values |-> <<>>]
            ELSE IF rest.exc # "" THEN rest
            ELSE [exc |-> "", msg |-> <<>>, values |-> <<first.value>> \o rest.values]

\* reprocess_json, lines 92-93: json.dumps with the encoder, then json.loads.
reprocess_json(metadata_dictionary, encoder) ==
    json_dumps_values(metadata_dictionary, encoder)

(***************************************************************************)
(* The units object given to SWIFTMetadata: a RemoteSWIFTUnits, which has  *)
(* no _handle attribute, or a swiftsimio SWIFTUnits, whose _handle is the  *)
(* open file.                                                              *)
(***************************************************************************)
RemoteUnits == [cls |-> "RemoteSWIFTUnits", handle |-> "absent"]
SwiftUnits == [cls |-> "SWIFTUnits", handle |-> "live"]

UnitsObjects == {RemoteUnits, SwiftUnits}

\* The units object as a value of the metadata dictionary.
UnitsLeaf(units) ==
    Obj(units.cls, 0,
        IF units.handle = "absent" THEN UnitsObj.s
        ELSE "'_handle': " \o units.handle, "", NoArray)

\* The attributes SWIFTMetadata reads from the headers of a file.
SampleHeader ==
    <<QuantityObj, ArrayObj, BytesObj, MassTableObj, ParticleTypeObj, Int32Obj,
      Int64Obj, DatetimeObj, IntObj, Float64Obj, StrObj>>

\* The attributes of the file under each version of its content.
HeaderOf(version) ==
    IF version = 1 THEN SampleHeader
    ELSE <<QuantityObj, Obj("np.int64", version, "", "", NoArray)>>

Headers ==
    {SampleHeader,
     <<QuantityObj, PyBytesObj, Int32Obj>>,
     <<QuantityObj, SetObj, Int32Obj>>,
     <<Int64Obj, UndecodableBytesObj>>,
     <<ArrayObj, LockObj>>}

\* SWIFTMetadata(filename, units)
SWIFTMetadata(filename, units, header) ==
    [built |-> TRUE, units |-> units, header |-> header]

\* metadata.__dict__: the values of the attributes.
MetadataDict(metadata) == <<UnitsLeaf(metadata.units)>> \o metadata.header

\* cloudpickle.dumps(metadata): an open file and a lock cannot be pickled.
cloudpickle_dumps(metadata) ==
    LET leaves == MetadataDict(metadata)
        bad == {i \in 1..Len(leaves) : leaves[i].cls \in {"_thread.lock", "h5py.File"}}
    IN  IF metadata.units.handle = "live"
        THEN EncodeError("TypeError", <<"h5py objects cannot be pickled">>)
        ELSE IF bad # {}
        THEN EncodeError("TypeError",
                         <<"cannot pickle '", leaves[CHOOSE i \in bad : TRUE].cls,
                           "' object">>)
        ELSE EncodeOk(JNull)

\* Lines 74-75: the file handle of the units object is not serialised.
scrub(metadata) ==
    IF metadata.units.handle # "absent"
    THEN [metadata EXCEPT !.units.handle = "None"]
    ELSE metadata

\* create_swift_metadata, lines 73-82.
create_swift_metadata(filename, units, header) ==
    LET metadata == scrub(SWIFTMetadata(filename, units, header))
        pickled == cloudpickle_dumps(metadata)
        events == <<"open", "read", "close", "scrub", "pickle">>
    IN  IF ~PathExists(filename)
        THEN Raise("FileNotFoundError", 0, <<>>, <<"open_failed">>)
        ELSE IF pickled.exc # ""
        THEN [Raise("RemoteSWIFTMetadataError", 0,
                    <<"Error serialising metadata: ">> \o pickled.msg, events)
                EXCEPT !.metadata = metadata]
        ELSE [Frame("return", "", 0, <<>>, "bytes", "", NoArray, events)
                EXCEPT !.metadata = metadata]

\* create_swift_metadata_dict, lines 111-119.
create_swift_metadata_dict(filename, units, header) ==
    LET metadata == SWIFTMetadata(filename, units, header)
        metadata_dict == MetadataDict(metadata)
        reprocessed == reprocess_json(metadata_dict, "SWIFTMetadataEncoder")
        events == <<"open", "read", "close", "json_dumps">>
    IN  IF ~PathExists(filename)
        THEN Raise("FileNotFoundError", 0, <<>>, <<"open_failed">>)
        ELSE IF reprocessed.exc = "TypeError"
        THEN [Raise("RemoteSWIFTMetadataError", 0,
                    <<"Error serialising JSON: ">> \o reprocessed.msg, events)
                EXCEPT !.metadata = metadata]
        ELSE IF reprocessed.exc # ""
        THEN [Raise(reprocessed.exc, 0, reprocessed.msg, events)
                EXCEPT !.metadata = metadata]
        ELSE [Frame("return", "", 0, <<>>, "dict", "", NoArray,
                    events \o <<"json_loads">>)
                EXCEPT !.metadata = metadata,
                       !.payload = [array |-> JList(reprocessed.values), dtype |-> ""]]

\* fastapi.status
HTTP_200_OK == 200

HTTP_401_UNAUTHORIZED == 401

HTTP_404_NOT_FOUND == 404

(***************************************************************************)
(* Token authentication (src/src/api/routers/auth.py).  A token is what    *)
(* jwt.decode can tell apart: whether it parses as a JWT, the algorithm of *)
(* its header, the key that signed it, its exp claim against the clock and *)
(* its sub claim (None when the payload has none).                         *)
(***************************************************************************)
Token(form, alg, key, exp, sub) ==
    [form |-> form, alg |-> alg, key |-> key, exp |-> exp, sub |-> sub]

NoToken == Token("", "", "", "", None)

MalformedToken == Token("malformed", "", "", "", None)

Tokens ==
    {MalformedToken}
    \cup {Token("jwt", alg, key, exp, sub) :
            alg \in {"HS256", "none"},
            key \in {"jwt_secret_key", "another key"},
            exp \in {"absent", "future", "past"},
            sub \in {None, "", "test_user"}}

\* The settings object handed to decode_jwt: an instance of
\* api.config.Settings, whose fields are db_url, access_token_expiry_mins,
\* secret_key and algorithm, or an object that also has the field
\* jwt_secret_key the function reads.
DeclaredSettings ==
    {"db_url", "access_token_expiry_mins", "secret_key", "algorithm"}

SettingsObjects == {DeclaredSettings, DeclaredSettings \cup {"jwt_secret_key"}}

\* jwt.decode(token, key, algorithms): the token is parsed, the algorithm
\* of its header and its signature are verified, then the exp claim.
jwt_decode(token, key, algorithms) ==
    IF token.form # "jwt" THEN [exc |-> "DecodeError", payload |-> NoToken]
    ELSE IF token.alg \notin algorithms
    THEN [exc |-> "InvalidAlgorithmError", payload |-> NoToken]
    ELSE IF token.key # key
    THEN [exc |-> "InvalidSignatureError", payload |-> NoToken]
    ELSE IF token.exp = "past"
    THEN [exc |-> "ExpiredSignatureError", payload |-> NoToken]
    ELSE [exc |-> "", payload |-> token]

\* The subclasses of jwt.InvalidTokenError jwt_decode raises.
InvalidTokenError ==
    {"DecodeError", "InvalidAlgorithmError", "InvalidSignatureError",
     "ExpiredSignatureError"}

CredentialsException(status_code, detail, events) ==
    Raise("CredentialsException", status_code, <<detail>>, events)

\* decode_jwt, lines 77-99.  The arguments of jwt.decode are evaluated
\* first: settings.jwt_secret_key on an object without that field raises
\* AttributeError, which no except clause of the function names.
decode_jwt(token, settings) ==
    IF "jwt_secret_key" \notin settings
    THEN Raise("AttributeError", 0,
               <<"'Settings' object has no attribute 'jwt_secret_key'">>, <<>>)
    ELSE LET decoded == jwt_decode(token, "jwt_secret_key", {"HS256"})
             user == decoded.payload.sub
         IN  IF decoded.exc = "ExpiredSignatureError"
             THEN CredentialsException(HTTP_401_UNAUTHORIZED,
                                       "JWT token has expired", <<"jwt.decode">>)
             ELSE IF decoded.exc \in InvalidTokenError
             THEN CredentialsException(HTTP_401_UNAUTHORIZED,
                                       "Invalid JWT token", <<"jwt.decode">>)
             ELSE IF user = None \/ user = ""
             THEN CredentialsException(HTTP_401_UNAUTHORIZED,
                                       "Invalid username/password",
                                       <<"jwt.decode">>)
             ELSE [Frame("return", "", 0, <<>>, "str", "", NoArray,
                         <<"jwt.decode">>)
                     EXCEPT !.result = user]

\* The Authorization header as the bearer scheme hands it over: None, or
\* credentials that are empty or a token.
Authorisations == {"None", "no credentials", "Bearer"}

\* get_authenticated_user, lines 125-129.
get_authenticated_user(authorisation, token, settings) ==
    IF authorisation # "Bearer"
    THEN CredentialsException(HTTP_401_UNAUTHORIZED,
                              "No token provided with request.", <<>>)
    ELSE decode_jwt(token, settings)

(***************************************************************************)
(* @lru_cache(maxsize=128) on create_swift_metadata.  The key of an entry  *)
(* is the pair of the arguments; RemoteSWIFTUnits defines neither __eq__   *)
(* nor __hash__, so two units objects are the same key only when they are  *)
(* the same object.  A units object is named by its holder: the handler    *)
(* makes one for each request, and an entry under it can be found by no    *)
(* later call, so that metadata_cache holds the entries under the units    *)
(* objects that outlive a call.  A call that raises leaves no entry.       *)
(***************************************************************************)
lru_cache_maxsize == 128

MadeByRequest == "made by the request"

\* Units objects of equal attributes that a caller keeps between calls.
HeldUnits == {"units_a", "units_b"}

EmptyCache == [key \in {} |-> NoMetadata]

\* The decorated create_swift_metadata, line 56: the memoised result on a
\* hit, else the result of the function, remembered when it returns.
lru_cache_create_swift_metadata(cache, filename, units_id, content) ==
    LET key == <<filename, units_id>>
        serialised == create_swift_metadata(filename, RemoteUnits, HeaderOf(content))
    IN  IF key \in DOMAIN cache
        THEN [frame |-> [Frame("return", "", 0, <<>>, "bytes", "", NoArray,
                               <<"cache_hit">>)
                           EXCEPT !.metadata = cache[key]],
              cache |-> cache]
        ELSE [frame |-> serialised,
              cache |-> IF /\ serialised.status = "return"
                           /\ units_id # MadeByRequest
                           /\ Cardinality(DOMAIN cache) < lru_cache_maxsize
                        THEN [k \in DOMAIN cache \cup {key} |->
                                IF k = key THEN serialised.metadata ELSE cache[k]]
                        ELSE cache]

(***************************************************************************)
(* SwiftAuthenticator (src/src/api/auth.py; src/src/api/virgo_auth.py has  *)
(* the same methods).  The cookie jar of a session is the value of its     *)
(* SESSIONID cookie, "" when it has none; the cookie file exists or not    *)
(* and holds a jar.                                                        *)
(***************************************************************************)
NoCookies == ""

CookiesFile(exists, cookies) == [exists |-> exists, cookies |-> cookies]

NoCookiesFile == CookiesFile(FALSE, NoCookies)

\* What the upstream server does with session.get: it raises a
\* RequestException, or answers with a status and perhaps a cookie.
Upstream(raises, status_code, set_cookie) ==
    [raises |-> raises, status_code |-> status_code, set_cookie |-> set_cookie]

NoUpstream == Upstream(FALSE, 0, None)

UpstreamOutcomes ==
    {Upstream(TRUE, 0, None)}
    \cup {Upstream(FALSE, status_code, set_cookie) :
            status_code \in {HTTP_200_OK, HTTP_401_UNAUTHORIZED, 500},
            set_cookie \in {None, "TESTSESSION", "NEWSESSION"}}

\* load_cookies, lines 93-103: the cookies of the file, if it exists.
load_cookies(file) == IF file.exists THEN file.cookies ELSE NoCookies

\* The authenticator's return: a status code, the cookies of the session and
\* whether save_cookies ran.
Authenticated(status_code, session, events) ==
    [Frame("return", "", 0, <<>>, "int", "", NoArray, events)
       EXCEPT !.result = status_code, !.session = session]

\* A faulty variant: the cookies are saved whatever the status.
validate_credentials_saves_always(session, upstream) ==
    IF upstream.raises
    THEN Authenticated(HTTP_404_NOT_FOUND, session, <<"load_cookies", "get">>)
    ELSE LET cookies == IF upstream.set_cookie # None THEN upstream.set_cookie
                        ELSE session
         IN  Authenticated(upstream.status_code, cookies,
                           <<"load_cookies", "get", "save_cookies">>)

\* validate_credentials, lines 43-59.  session.get keeps the cookies the
\* response sets in the session.
validate_credentials(session, upstream) ==
    IF upstream.raises
    THEN Authenticated(HTTP_404_NOT_FOUND, session, <<"load_cookies", "get">>)
    ELSE LET cookies == IF upstream.set_cookie # None THEN upstream.set_cookie
                        ELSE session
         IN  IF upstream.status_code = HTTP_200_OK
             THEN Authenticated(upstream.status_code, cookies,
                                <<"load_cookies", "get", "save_cookies">>)
             ELSE IF upstream.status_code = HTTP_401_UNAUTHORIZED
             THEN Authenticated(upstream.status_code, cookies,
                                <<"load_cookies", "get", "log_error">>)
             ELSE Authenticated(upstream.status_code, cookies,
                                <<"load_cookies", "get">>)

\* authenticate, lines 67-69.
authenticate(file, upstream) == validate_credentials(load_cookies(file), upstream)

\* save_cookies, lines 80-82: the file is written with the cookies of the
\* session, when the call saved them.
save_cookies(file, outcome) ==
    IF \E i \in 1..Len(outcome.events) : outcome.events[i] = "save_cookies"
    THEN CookiesFile(TRUE, outcome.session)
    ELSE file

(***************************************************************************)
(* Units.  A dictionary is a function of its keys; a quantity is a number  *)
(* and a unit, and its string is "<value> <unit>".                         *)
(***************************************************************************)
Quantity(n, unit) == [cls |-> "unyt_quantity", n |-> n, s |-> unit]

\* The quantities of the units dictionaries of the model.
Quantities ==
    {Quantity(10, "Msun"), Quantity(10, "kg"), Quantity(1, "Mpc"), Quantity(977, "Gyr")}

\* unyt_quantity.to_string
to_string(quantity) == ToString(quantity.n) \o " " \o quantity.s

\* unyt_quantity.from_string: a text that is no "<value> <unit>" is refused.
from_string(text) ==
    IF \E quantity \in Quantities : to_string(quantity) = text
    THEN [exc |-> "", value |-> CHOOSE quantity \in Quantities : to_string(quantity) = text]
    ELSE [exc |-> "ValueError", value |-> Quantity(0, "")]

excluded_fields == {"filename", "units"}

\* The units dictionaries given to create_unyt_quantities.
UnitDicts ==
    {[filename |-> SnapPath, units |-> [mass |-> "10 kg", length |-> "1 Mpc"],
      mass |-> "10 Msun", length |-> "1 Mpc", time |-> "977 Gyr"],
     [filename |-> SnapPath, mass |-> "10 Msun"],
     [units |-> [mass |-> "10 kg"], mass |-> "10 Msun"],
     [filename |-> RelPath, units |-> <<>>],
     <<>>,
     [filename |-> SnapPath, units |-> [mass |-> "10 kg"], mass |-> "ten suns"],
     [filename |-> SnapPath, units |-> [mass |-> "ten kg"], mass |-> "10 Msun"]}

\* A dictionary comprehension over string values: the parsed values, or the
\* error of a value that does not parse.
parse_values(dictionary, keys) ==
    IF \E key \in keys : from_string(dictionary[key]).exc # ""
    THEN [exc |-> "ValueError", value |-> <<>>]
    ELSE [exc |-> "",
          value |-> [key \in keys |-> from_string(dictionary[key]).value]]

\* A faulty variant: the excluded keys are left out of the result.
create_unyt_quantities_drops_excluded(swift_unit_dict) ==
    IF "units" \notin DOMAIN swift_unit_dict
    THEN [Raise("SWIFTUnytException", HTTP_400_BAD_REQUEST, <<"'units'">>, <<>>)
            EXCEPT !.argument = swift_unit_dict]
    ELSE LET units == parse_values(swift_unit_dict.units, DOMAIN swift_unit_dict.units)
             assigned == [swift_unit_dict EXCEPT !.units = units.value]
             parsed == parse_values(assigned, DOMAIN assigned \ excluded_fields)
         IN  IF units.exc # ""
             THEN [Raise(units.exc, 0, <<>>, <<>>) EXCEPT !.argument = swift_unit_dict]
             ELSE IF parsed.exc # ""
             THEN [Raise(parsed.exc, 0, <<>>, <<>>) EXCEPT !.argument = assigned]
             ELSE [Frame("return", "", 0, <<>>, "dict", "", NoArray, <<>>)
                     EXCEPT !.argument = assigned, !.result = parsed.value]

\* create_unyt_quantities, lines 143-163.  The nested dictionary is parsed
\* and assigned to the "units" key of the caller's dictionary; then a new
\* dictionary is made of every key.
create_unyt_quantities(swift_unit_dict) ==
    IF "units" \notin DOMAIN swift_unit_dict
    THEN [Raise("SWIFTUnytException", HTTP_400_BAD_REQUEST, <<"'units'">>, <<>>)
            EXCEPT !.argument = swift_unit_dict]
    ELSE LET units == parse_values(swift_unit_dict.units, DOMAIN swift_unit_dict.units)
             assigned == [swift_unit_dict EXCEPT !.units = units.value]
             parsed == parse_values(assigned, DOMAIN assigned \ excluded_fields)
         IN  IF units.exc # ""
             THEN [Raise(units.exc, 0, <<>>, <<>>) EXCEPT !.argument = swift_unit_dict]
             ELSE IF parsed.exc # ""
             THEN [Raise(parsed.exc, 0, <<>>, <<>>) EXCEPT !.argument = assigned]
             ELSE [Frame("return", "", 0, <<>>, "dict", "", NoArray, <<>>)
                     EXCEPT !.argument = assigned,
                            !.result = [key \in DOMAIN assigned |->
                                          IF key \notin excluded_fields
                                          THEN parsed.value[key]
                                          ELSE assigned[key]]]

(***************************************************************************)
(* convert_swift_units_dict_types.  Its dictionaries hold values of more   *)
(* than one class, so a value carries its class; a dictionary is its keys  *)
(* in the order of insertion and the value of each.                        *)
(***************************************************************************)
PyStr(text) == [cls |-> "str", n |-> 0, s |-> text, keys |-> <<>>, items |-> <<>>]

PyQuantity(n, unit) ==
    [cls |-> "unyt_quantity", n |-> n, s |-> unit, keys |-> <<>>, items |-> <<>>]

PyDict(keys, items) == [cls |-> "dict", n |-> 0, s |-> "", keys |-> keys, items |-> items]

KeysOf(dictionary) == {dictionary.keys[i] : i \in 1..Len(dictionary.keys)}

\* The nested dictionaries of the units dictionaries of the model.
CgsUnits ==
    PyDict(<<"U_L", "U_M">>, [U_L |-> PyQuantity(1, "cm"), U_M |-> PyQuantity(19, "g")])

CgsUnitsMixed ==
    PyDict(<<"U_L", "U_M">>, [U_L |-> PyStr("1 cm"), U_M |-> PyQuantity(19, "g")])

\* The units dictionaries given to convert_swift_units_dict_types.
QuantityDicts ==
    {PyDict(<<"filename", "units", "mass", "length">>,
            [filename |-> PyStr("/a/test/file/path"), units |-> CgsUnits,
             mass |-> PyQuantity(10, "Msun"), length |-> PyQuantity(1, "Mpc")]),
     PyDict(<<"units", "mass">>, [units |-> CgsUnitsMixed, mass |-> PyStr("10 Msun")]),
     PyDict(<<"units">>, [units |-> PyDict(<<>>, <<>>)]),
     PyDict(<<"filename", "mass", "length">>,
            [filename |-> PyStr("/a/test/file/path"),
             mass |-> PyQuantity(10, "Msun"), length |-> PyQuantity(1, "Mpc")]),
     PyDict(<<"mass", "filename">>,
            [mass |-> PyQuantity(10, "Msun"), filename |-> PyStr("/a/test/file/path")]),
     PyDict(<<"filename">>, [filename |-> PyStr("/a/test/file/path")]),
     PyDict(<<>>, <<>>)}

\* Lines 86-87 and 89-92: a quantity is replaced by its string.
quantity_to_string(value) ==
    IF value.cls = "unyt_quantity" THEN PyStr(to_string(value)) ELSE value

\* convert_swift_units_dict_types, lines 84-99.  The loop over the keys
\* converts the value of a key and then walks swift_units_dict["units"]; a
\* dictionary without keys is never looked into.
convert_swift_units_dict_types(swift_units_dict) ==
    IF swift_units_dict.keys = <<>>
    THEN [Frame("return", "", 0, <<>>, "dict", "", NoArray, <<>>)
            EXCEPT !.argument = swift_units_dict, !.result = swift_units_dict]
    ELSE IF "units" \notin KeysOf(swift_units_dict)
    THEN [Raise("SWIFTUnytException", HTTP_400_BAD_REQUEST, <<"'units'">>, <<>>)
            EXCEPT !.argument =
                [swift_units_dict EXCEPT !.items[Head(swift_units_dict.keys)] =
                                            quantity_to_string(@)]]
    ELSE LET units == swift_units_dict.items.units
             converted ==
                [swift_units_dict EXCEPT !.items =
                    [key \in KeysOf(swift_units_dict) |->
                        IF key = "units"
                        THEN [units EXCEPT !.items =
                                [unit \in KeysOf(units) |->
                                    quantity_to_string(units.items[unit])]]
                        ELSE quantity_to_string(swift_units_dict.items[key])]]
         IN  [Frame("return", "", 0, <<>>, "dict", "", NoArray, <<>>)
                EXCEPT !.argument = converted, !.result = converted]

(***************************************************************************)
(* The masks and metadata helpers the base handlers call.  Each opens the  *)
(* file through swiftsimio, reads its headers and closes it.               *)
(***************************************************************************)
BoxSize == NdArray(Float64, <<3>>, <<142, 142, 142>>)

return_mask_boxsize(filename, events) ==
    generate_dict_from_ndarray(BoxSize, events \o <<"open", "read", "close">>)

return_mask(filename, events) ==
    Frame("return", "", 0, <<>>, "bytes", "", NoArray,
          events \o <<"open", "read", "close", "pickle">>)

\* retrieve_metadata, lines 264-270: the units dictionary is read from the
\* file, a RemoteSWIFTUnits is made of it, and the pickled metadata is
\* returned in a Response.
retrieve_metadata_body(filename, events) ==
    LET serialised_metadata ==
            lru_cache_create_swift_metadata(metadata_cache, filename,
                                            MadeByRequest, file_content).frame
        outcome == [serialised_metadata
                      EXCEPT !.events = events \o <<"open", "read", "close">> \o @]
    IN  IF outcome.status = "raise" THEN outcome
        ELSE [outcome EXCEPT !.kind = "Response"]

retrieve_units_body(filename, events) ==
    Frame("return", "", 0, <<>>, "dict", "", NoArray,
          events \o <<"open", "read", "close">>)

(***************************************************************************)
(* The request handlers.  with_file_path is the common opening of every    *)
(* handler: get_file_path on the module's dataset_map, and the rest of the *)
(* handler only when it returned.                                          *)
(***************************************************************************)
NoMaskInfoMsg ==
    <<"No mask information found. Use the unmasked endpoint if requesting unmasked data.">>

\* The outcome of a handler whose get_file_path returned `located` and whose
\* remaining statements yield `rest`.
After(located, rest) ==
    IF located.status = "raise" THEN located
    ELSE [rest EXCEPT !.file_path = located.file_path]

get_mask_boxsize(map, filename, alias) ==
    LET file_path == get_file_path(map, filename, alias)
    IN After(file_path, return_mask_boxsize(file_path.path, file_path.events))

\* A faulty variant: the path is located but its existence is not checked.
get_filepath_tolerant(map, filename, alias) ==
    check_file_path_unchecked(locate(map, filename, alias))

get_filepath_from_alias(map, filename, alias) ==
    get_file_path(map, filename, alias)

get_mask(map, filename, alias) ==
    LET file_path == get_file_path(map, filename, alias)
    IN After(file_path, return_mask(file_path.path, file_path.events))

retrieve_metadata(map, filename, alias) ==
    LET file_path == get_file_path(map, filename, alias)
    IN After(file_path,
             retrieve_metadata_body(PathResolve(file_path.path), file_path.events))

retrieve_units(map, filename, alias) ==
    LET file_path == get_file_path(map, filename, alias)
    IN After(file_path,
             retrieve_units_body(PathResolve(file_path.path), file_path.events))

\* Prefix the events of an earlier step to a frame.
Then(events, frame) == [frame EXCEPT !.events = events \o frame.events]

get_masked_array_data(map, filename, alias, field, mask_array_json, mask_data_type, mask_size, columns) ==
    LET located == get_file_path(map, filename, alias)
        file_path == PathResolve(located.path)
        masked_array == get_array_masked(file_path, field, mask_array_json,
                                         mask_data_type, mask_size, columns)
    IN After(located,
         IF ~Truthy(mask_array_json)
         THEN Raise("SWIFTDataSpecException", HTTP_400_BAD_REQUEST, NoMaskInfoMsg,
                    located.events)
         ELSE IF masked_array.status = "raise"
         THEN Then(located.events, masked_array)
         ELSE [generate_dict_from_ndarray(masked_array.array,
                                          located.events \o masked_array.events)
                 EXCEPT !.prim = masked_array.prim])

get_unmasked_array_data(map, filename, alias, field, columns) ==
    LET located == get_file_path(map, filename, alias)
        file_path == PathResolve(located.path)
        unmasked_array == get_array_unmasked(file_path, field, columns)
    IN After(located,
         IF unmasked_array.status = "raise"
         THEN Then(located.events, unmasked_array)
         ELSE generate_dict_from_ndarray(unmasked_array.array,
                                         located.events \o unmasked_array.events))

(***************************************************************************)
(* State machine.                                                          *)
(***************************************************************************)
Filenames == Paths \cup {"", None}

Aliases == AliasKeys \cup {"", None}

MaskSizes == 0..MaxMaskSize

Req(op, filename, alias, field, mask_array_json, mask_data_type, mask_size, columns) ==
    [op |-> op, filename |-> filename, alias |-> alias, field |-> field,
     mask_array_json |-> mask_array_json, mask_data_type |-> mask_data_type,
     mask_size |-> mask_size, columns |-> columns, array |-> NoArray,
     obj |-> NoObj, encoder |-> "", units |-> NoMetadata.units, header |-> <<>>,
     swift_unit_dict |-> <<>>, units_id |-> "", upstream |-> NoUpstream,
     cookies_before |-> NoCookiesFile, token |-> NoToken, settings |-> {},
     authorisation |-> ""]

BaseReq(op, filename, alias) ==
    Req(op, filename, alias, "", None, None, 0, NoColumns)

NoRequest == BaseReq("", None, None)

NoResponse == Frame("", "", 0, <<>>, "", "", NoArray, <<>>)

Init ==
    /\ dataset_map \in AliasMaps
    /\ phase = "idle"
    /\ request = NoRequest
    /\ response = NoResponse
    /\ open_handles = 0
    /\ file_content = 1
    /\ metadata_cache = EmptyCache
    /\ cookies_file = NoCookiesFile
    /\ last_success = NoCookiesFile

\* The number of times an event occurs in a sequence of events.
RECURSIVE Count(_, _)
Count(events, event) ==
    IF events = <<>> THEN 0
    ELSE (IF Head(events) = event THEN 1 ELSE 0) + Count(Tail(events), event)

\* The handler runs to its end: its outcome is recorded, and the files it
\* opened and did not close stay open in the process.
Serve(req, frame) ==
    /\ phase' = "done"
    /\ request' = req
    /\ response' = frame
    /\ open_handles' = open_handles + Count(frame.events, "open")
                                     - Count(frame.events, "close")
    /\ UNCHANGED <<dataset_map, persistent>>

GetMaskBoxsize ==
    /\ phase = "idle"
    /\ \E filename \in Filenames, alias \in Aliases :
        Serve(BaseReq("get_mask_boxsize", filename, alias),
              get_mask_boxsize(dataset_map, filename, alias))

GetFilepathFromAlias ==
    /\ phase = "idle"
    /\ \E filename \in Filenames, alias \in Aliases :
        Serve(BaseReq("get_filepath_from_alias", filename, alias),
              get_filepath_from_alias(dataset_map, filename, alias))

GetMask ==
    /\ phase = "idle"
    /\ \E filename \in Filenames, alias \in Aliases :
        Serve(BaseReq("get_mask", filename, alias),
              get_mask(dataset_map, filename, alias))

RetrieveMetadata ==
    /\ phase = "idle"
    /\ \E filename \in Filenames, alias \in Aliases :
        Serve(BaseReq("retrieve_metadata", filename, alias),
              retrieve_metadata(dataset_map, filename, alias))

RetrieveUnits ==
    /\ phase = "idle"
    /\ \E filename \in Filenames, alias \in Aliases :
        Serve(BaseReq("retrieve_units", filename, alias),
              retrieve_units(dataset_map, filename, alias))

\* SWIFTMaskedDataSpec: filename and mask_array_json are strings.
GetMaskedArrayData ==
    /\ phase = "idle"
    /\ \E filename \in Filenames \ {None}, alias \in Aliases, field \in FieldNames,
       mask_array_json \in MaskTexts \cup {""}, mask_data_type \in DTypeNames,
       mask_size \in MaskSizes, columns \in ColumnSelectors :
        Serve(Req("get_masked_array_data", filename, alias, field,
                  mask_array_json, mask_data_type, mask_size, columns),
              get_masked_array_data(dataset_map, filename, alias, field,
                                    mask_array_json, mask_data_type, mask_size,
                                    columns))

GetUnmaskedArrayData ==
    /\ phase = "idle"
    /\ \E filename \in Filenames, alias \in Aliases, field \in FieldNames,
       columns \in ColumnSelectors :
        Serve(Req("get_unmasked_array_data", filename, alias, field,
                  None, None, 0, columns),
              get_unmasked_array_data(dataset_map, filename, alias, field, columns))

\* The processor's methods called directly, as its tests call them.
CallRetrieveFilename ==
    /\ phase = "idle"
    /\ \E alias \in Aliases :
        Serve(BaseReq("retrieve_filename", None, alias),
              retrieve_filename(dataset_map, alias))

CallGetArrayMasked ==
    /\ phase = "idle"
    /\ \E filename \in Paths, field \in FieldNames,
       mask_json \in MaskTexts \cup {"", None}, mask_data_type \in DTypeNames,
       mask_size \in MaskSizes, columns \in ColumnSelectors :
        Serve(Req("get_array_masked", filename, None, field, mask_json,
                  mask_data_type, mask_size, columns),
              get_array_masked(filename, field, mask_json, mask_data_type,
                               mask_size, columns))

CallGetArrayUnmasked ==
    /\ phase = "idle"
    /\ \E filename \in Paths, field \in FieldNames, columns \in ColumnSelectors :
        Serve(Req("get_array_unmasked", filename, None, field, None, None, 0,
                  columns),
              get_array_unmasked(filename, field, columns))

CallLoadNdarrayFromJson ==
    /\ phase = "idle"
    /\ \E json_array \in CodecTexts, data_type \in CodecDTypes :
        Serve(Req("load_ndarray_from_json", None, None, "", json_array,
                  data_type, 0, NoColumns),
              load_ndarray_from_json(json_array, data_type))

CallGenerateDictFromNdarray ==
    /\ phase = "idle"
    /\ \E array \in EncodeInputs :
        Serve([BaseReq("generate_dict_from_ndarray", None, None)
                 EXCEPT !.array = array],
              generate_dict_from_ndarray(array, <<>>))

\* A client of the service: the dictionary of an array is sent as JSON and
\* decoded with the dtype tag it carries.
encode_then_decode(array) ==
    LET encoded == generate_dict_from_ndarray(array, <<>>)
        decoded == load_ndarray_from_json(json_dumps(encoded.payload.array),
                                          encoded.payload.dtype)
    IN  [decoded EXCEPT !.payload = encoded.payload,
                        !.events = encoded.events \o @]

CallEncodeThenDecode ==
    /\ phase = "idle"
    /\ \E array \in EncodeInputs :
        Serve([BaseReq("encode_then_decode", None, None) EXCEPT !.array = array],
              encode_then_decode(array))

\* The response is delivered and the per-request objects are discarded.
Respond ==
    /\ phase = "done"
    /\ phase' = "idle"
    /\ request' = NoRequest
    /\ response' = NoResponse
    /\ UNCHANGED <<dataset_map, open_handles, persistent>>

\* A value the encoder's default is called on, as json.dumps calls it.
call_default(encoder, obj) ==
    LET encoded == encoder_default(encoder, obj)
    IN  IF encoded.exc # "" THEN Raise(encoded.exc, 0, encoded.msg, <<"default">>)
        ELSE [Frame("return", "", 0, <<>>, "json", "", NoArray, <<"default">>)
                EXCEPT !.payload = [array |-> encoded.value, dtype |-> ""]]

CallEncoderDefault ==
    /\ phase = "idle"
    /\ \E encoder \in Encoders, obj \in LeafObjects :
        Serve([BaseReq("default", None, None)
                 EXCEPT !.encoder = encoder, !.obj = obj],
              call_default(encoder, obj))

\* json.dumps(swift_metadata, cls=encoder) and json.dumps(swift_metadata).
call_json_dumps(header, encoder) ==
    LET dumped == json_dumps_values(header, encoder)
    IN  IF dumped.exc # "" THEN Raise(dumped.exc, 0, dumped.msg, <<"json_dumps">>)
        ELSE [Frame("return", "", 0, <<>>, "str", "", NoArray, <<"json_dumps">>)
                EXCEPT !.payload = [array |-> JList(dumped.values), dtype |-> ""]]

CallJsonDumps ==
    /\ phase = "idle"
    /\ \E encoder \in Encoders, header \in Headers :
        Serve([BaseReq("json_dumps", None, None)
                 EXCEPT !.encoder = encoder, !.header = header],
              call_json_dumps(header, encoder))

CallCreateSwiftMetadata ==
    /\ phase = "idle"
    /\ \E filename \in {SnapPath, MissingPath}, units \in UnitsObjects, header \in Headers :
        Serve([BaseReq("create_swift_metadata", filename, None)
                 EXCEPT !.units = units, !.header = header],
              create_swift_metadata(filename, units, header))

CallCreateSwiftMetadataDict ==
    /\ phase = "idle"
    /\ \E filename \in {SnapPath, MissingPath}, units \in UnitsObjects, header \in Headers :
        Serve([BaseReq("create_swift_metadata_dict", filename, None)
                 EXCEPT !.units = units, !.header = header],
              create_swift_metadata_dict(filename, units, header))

CallCreateUnytQuantities ==
    /\ phase = "idle"
    /\ \E swift_unit_dict \in UnitDicts :
        Serve([BaseReq("create_unyt_quantities", None, None)
                 EXCEPT !.swift_unit_dict = swift_unit_dict],
              create_unyt_quantities(swift_unit_dict))

CallConvertSwiftUnitsDictTypes ==
    /\ phase = "idle"
    /\ \E swift_units_dict \in QuantityDicts :
        Serve([BaseReq("convert_swift_units_dict_types", None, None)
                 EXCEPT !.swift_unit_dict = swift_units_dict],
              convert_swift_units_dict_types(swift_units_dict))

CallDecodeJwt ==
    /\ phase = "idle"
    /\ \E token \in Tokens, settings \in SettingsObjects :
        Serve([BaseReq("decode_jwt", None, None)
                 EXCEPT !.token = token, !.settings = settings],
              decode_jwt(token, settings))

CallGetAuthenticatedUser ==
    /\ phase = "idle"
    /\ \E authorisation \in Authorisations, settings \in SettingsObjects :
        \E token \in IF authorisation = "Bearer" THEN Tokens ELSE {NoToken} :
            Serve([BaseReq("get_authenticated_user", None, None)
                     EXCEPT !.token = token, !.settings = settings,
                            !.authorisation = authorisation],
                  get_authenticated_user(authorisation, token, settings))

Next ==
    \/ GetMaskBoxsize
    \/ GetFilepathFromAlias
    \/ GetMask
    \/ RetrieveMetadata
    \/ RetrieveUnits
    \/ GetMaskedArrayData
    \/ GetUnmaskedArrayData
    \/ CallRetrieveFilename
    \/ CallGetArrayMasked
    \/ CallGetArrayUnmasked
    \/ CallLoadNdarrayFromJson
    \/ CallGenerateDictFromNdarray
    \/ CallEncodeThenDecode
    \/ CallEncoderDefault
    \/ CallJsonDumps
    \/ CallCreateSwiftMetadata
    \/ CallCreateSwiftMetadataDict
    \/ CallCreateUnytQuantities
    \/ CallConvertSwiftUnitsDictTypes
    \/ CallDecodeJwt
    \/ CallGetAuthenticatedUser
    \/ Respond

Spec == Init /\ [][Next]_vars

(***************************************************************************)
(* SpecState: sequences of requests on what outlives a request.  The file  *)
(* changes between requests; create_swift_metadata is called with units    *)
(* objects the caller keeps; the authenticator meets every answer of the   *)
(* upstream server.                                                        *)
(***************************************************************************)
InitState ==
    /\ dataset_map \in AliasMaps
    /\ phase = "idle"
    /\ request = NoRequest
    /\ response = NoResponse
    /\ open_handles = 0
    /\ file_content = 1
    /\ metadata_cache = EmptyCache
    /\ cookies_file \in {NoCookiesFile, CookiesFile(TRUE, "TESTSESSION")}
    /\ last_success = cookies_file

\* The file is rewritten between two requests.
WriteFile ==
    /\ phase = "idle"
    /\ \E version \in 1..MaxVersion :
        /\ version # file_content
        /\ file_content' = version
    /\ UNCHANGED <<dataset_map, phase, request, response, open_handles,
                   metadata_cache, cookies_file, last_success>>

CallCreateSwiftMetadataHeld ==
    /\ phase = "idle"
    /\ \E filename \in {SnapPath, MissingPath}, units_id \in HeldUnits :
        LET call == lru_cache_create_swift_metadata(metadata_cache, filename,
                                                    units_id, file_content)
        IN  /\ phase' = "done"
            /\ request' = [BaseReq("create_swift_metadata", filename, None)
                             EXCEPT !.units = RemoteUnits, !.units_id = units_id]
            /\ response' = call.frame
            /\ metadata_cache' = call.cache
            /\ open_handles' = open_handles + Count(call.frame.events, "open")
                                             - Count(call.frame.events, "close")
    /\ UNCHANGED <<dataset_map, file_content, cookies_file, last_success>>

Authenticate ==
    /\ phase = "idle"
    /\ \E upstream \in UpstreamOutcomes :
        LET outcome == authenticate(cookies_file, upstream)
        IN  /\ phase' = "done"
            /\ request' = [BaseReq("authenticate", None, None)
                             EXCEPT !.upstream = upstream,
                                    !.cookies_before = cookies_file]
            /\ response' = outcome
            /\ cookies_file' = save_cookies(cookies_file, outcome)
            /\ last_success' =
                  IF ~upstream.raises /\ upstream.status_code = 200
                  THEN CookiesFile(TRUE,
                                   IF upstream.set_cookie # None
                                   THEN upstream.set_cookie
                                   ELSE IF cookies_file.exists
                                   THEN cookies_file.cookies ELSE "")
                  ELSE last_success
    /\ UNCHANGED <<dataset_map, open_handles, file_content, metadata_cache>>

NextState ==
    \/ WriteFile
    \/ CallCreateSwiftMetadataHeld
    \/ Authenticate
    \/ RetrieveMetadata
    \/ RetrieveUnits
    \/ GetFilepathFromAlias
    \/ Respond

SpecState == InitState /\ [][NextState]_vars

(***************************************************************************)
(* Vocabulary of the properties.                                           *)
(***************************************************************************)
Done == phase = "done"

\* The handlers that read data from the file named by the reference.
DataReadingOps ==
    {"get_masked_array_data", "get_unmasked_array_data", "retrieve_metadata",
     "retrieve_units", "get_mask", "get_mask_boxsize"}

\* Every operation that resolves a reference through get_file_path.
FilePathOps == DataReadingOps \cup {"get_filepath_from_alias"}

Happened(event) == \E i \in 1..Len(response.events) : response.events[i] = event

FileOpened == Happened("open") \/ Happened("open_failed")

Raised(exc, code, msg) ==
    /\ response.status = "raise"
    /\ response.exc = exc
    /\ response.code = code
    /\ response.msg = msg

\* The path the read operations of the request were given: the handlers
\* resolve the path get_file_path returned, a direct call passes its own.
ReadPath ==
    IF request.op \in FilePathOps
    THEN PathResolve(response.file_path)
    ELSE request.filename

\* The request reached the body of a read operation with a file that exists.
ReadsExistingFile ==
    IF request.op \in FilePathOps
    THEN response.file_path # None /\ PathExists(response.file_path)
    ELSE PathExists(request.filename)

(***************************************************************************)
(* C1.  As stated: resolving a reference that carries a path returns       *)
(* exactly that path and never consults the alias table, whatever the      *)
(* alias and the alias table.  get_file_path returns the path only when it *)
(* exists on disk.                                                         *)
(***************************************************************************)
C1_PathReturnedAsIs ==
    (Done /\ request.op \in FilePathOps /\ Truthy(request.filename))
    => /\ ~Happened("lookup")
       /\ response.file_path = request.filename
       /\ request.op = "get_filepath_from_alias"
          => response.status = "return" /\ response.path = request.filename

\* C1 as amended: a reference that carries a path resolves to exactly that
\* path without any alias lookup; get_file_path returns it when it exists on
\* disk and otherwise fails with the path-not-found error carrying it.
C1_PathWinsOverAlias ==
    (Done /\ request.op \in FilePathOps /\ Truthy(request.filename))
    => /\ ~Happened("lookup")
       /\ response.file_path = request.filename
       /\ request.op = "get_filepath_from_alias"
          => IF PathExists(request.filename)
             THEN /\ response.status = "return"
                  /\ response.kind = "Path"
                  /\ response.path = request.filename
             ELSE Raised("SWIFTDataSpecException", 400,
                         PathNotFoundMsg(request.filename))

C1_Witness ==
    /\ Done
    /\ request.op = "get_filepath_from_alias"
    /\ request.filename = SnapPath
    /\ request.alias = "sample_file"
    /\ DictGet(dataset_map, "sample_file") = MissingPath
    /\ response.status = "return"
    /\ response.path = SnapPath

(***************************************************************************)
(* C2.  As stated: a reference with no path and an alias that is absent    *)
(* from the alias table fails with the alias-not-found error, and the      *)
(* error carries the alias.                                                *)
(***************************************************************************)
AliasIsMissing ==
    /\ request.op \in FilePathOps \cup {"retrieve_filename"}
    /\ ~Truthy(request.filename)
    /\ Truthy(request.alias)
    /\ request.alias \notin DOMAIN dataset_map

ExistsBeforeOpen ==
    \A i \in 1..Len(response.events) :
        response.events[i] \in {"open", "open_failed"}
        => \E j \in 1..(i - 1) : response.events[j] = "exists"

C3_ExistenceCheckedBeforeOpen ==
    (Done /\ request.op \in DataReadingOps)
    => /\ ExistsBeforeOpen
       /\ (response.file_path # None /\ ~PathExists(response.file_path))
          => /\ Raised("SWIFTDataSpecException", 400,
                       PathNotFoundMsg(response.file_path))
             /\ Carries(response.msg, response.file_path)
             /\ ~FileOpened

C3_Witness ==
    /\ Done
    /\ request.op = "get_masked_array_data"
    /\ request.filename = ""
    /\ response.file_path = MissingPath
    /\ response.status = "raise"
    /\ Happened("exists")

(***************************************************************************)
(* C4.  As stated: the file-path handler tolerates a path that does not    *)
(* exist and returns it, while the data-reading handlers fail for the same *)
(* reference.                                                              *)
(***************************************************************************)
ResolvesToMissingPath ==
    /\ request.op = "get_filepath_from_alias"
    /\ response.file_path # None
    /\ ~PathExists(response.file_path)

C4_FilePathToleratesMissing ==
    (Done /\ ResolvesToMissingPath)
    => /\ response.status = "return"
       /\ response.path = response.file_path
       /\ get_mask(dataset_map, request.filename, request.alias).status = "raise"

\* C4 as amended: the file-path handler performs the same existence check as
\* the data-reading handlers and fails with the same path-not-found error
\* for a reference that resolves to a path that does not exist.
C4_FilePathChecksExistence ==
    (Done /\ ResolvesToMissingPath)
    => /\ Raised("SWIFTDataSpecException", 400,
                 PathNotFoundMsg(response.file_path))
       /\ \A other \in {get_mask(dataset_map, request.filename, request.alias),
                        get_unmasked_array_data(dataset_map, request.filename,
                                                request.alias, DensityField,
                                                NoColumns)} :
             /\ other.status = "raise"
             /\ other.exc = response.exc
             /\ other.msg = response.msg

C4_Witness ==
    /\ Done
    /\ request.op = "get_filepath_from_alias"
    /\ request.filename = None
    /\ request.alias = "sample_file"
    /\ response.file_path = MissingPath
    /\ response.status = "raise"

(***************************************************************************)
(* C5.  The unmasked read of a field that is absent from the file fails    *)
(* with the field-not-found error carrying the field name and the file     *)
(* path; no array and no empty result is returned.                         *)
(***************************************************************************)
UnmaskedOps == {"get_unmasked_array_data", "get_array_unmasked"}

MaskedOps == {"get_masked_array_data", "get_array_masked"}

C5_UnmaskedAbsentFieldFails ==
    (Done /\ request.op \in UnmaskedOps /\ ReadsExistingFile
          /\ request.field = AbsentField)
    => /\ response.status = "raise"
       /\ response.exc = "SWIFTProcessorError"
       /\ Carries(response.msg, request.field)
       /\ Carries(response.msg, ReadPath)

(***************************************************************************)
(* C6.  The masked read of a field that is absent from the file fails with *)
(* the field-not-found error naming the field and the file path; the       *)
(* failure is raised at the probe, the range-read primitive is never       *)
(* called and no array is returned.                                        *)
(***************************************************************************)
MaskDecodes ==
    /\ Truthy(request.mask_array_json)
    /\ load_ndarray_from_json(request.mask_array_json,
                              request.mask_data_type).status = "return"

C7_NoMaskIsAnError ==
    (Done /\ request.op \in MaskedOps /\ ~Truthy(request.mask_array_json))
    => /\ response.status = "raise"
       /\ response.array.isNone
       /\ ~FileOpened
       /\ ~Happened("probe")
       /\ ~response.prim.called
       /\ request.op = "get_array_masked"
          => Raised("SWIFTProcessorError", 0, NoMaskMsg)
       /\ (request.op = "get_masked_array_data" /\ ReadsExistingFile)
          => Raised("SWIFTDataSpecException", 400, NoMaskInfoMsg)

C7_Witness ==
    /\ Done
    /\ request.op = "get_array_masked"
    /\ request.mask_array_json = None
    /\ request.filename = SnapPath
    /\ request.field = CoordinatesField
    /\ response.status = "raise"
    /\ response.msg = NoMaskMsg

(***************************************************************************)
(* C8.  The shape handed to the range-read primitive is                    *)
(* (mask_size, componentCount) exactly when the probed first row has more  *)
(* than one component and no column selector was supplied; in every other  *)
(* case, selector 0 included, it is (mask_size,).                          *)
(***************************************************************************)
ComponentCount(field) == Prod(Tail(H5Shape(field)))

C8_MaskedOutputShape ==
    (Done /\ request.op \in MaskedOps /\ response.prim.called)
    => IF ComponentCount(request.field) > 1 /\ request.columns = NoColumns
       THEN response.prim.output_shape
                = <<request.mask_size, ComponentCount(request.field)>>
       ELSE response.prim.output_shape = <<request.mask_size>>

C8_Witness ==
    /\ Done
    /\ request.op = "get_array_masked"
    /\ request.field = CoordinatesField
    /\ request.columns = {0}
    /\ request.mask_size = 2
    /\ response.prim.called
    /\ response.prim.output_shape = <<2>>
    /\ response.status = "return"

(***************************************************************************)
(* C9.  The unmasked read of a two-dimensional field returns the full      *)
(* rows x components array when no column selector is given and, with a    *)
(* selector c, the 1-D array whose i-th element is component c of row i;   *)
(* of a 1-D field it returns the full 1-D array with or without selector.  *)
(***************************************************************************)
C9_UnmaskedShape ==
    (Done /\ request.op \in UnmaskedOps /\ ReadsExistingFile
          /\ request.field \in {DensityField, SingleField, CoordinatesField})
    => LET shape == H5Shape(request.field)
           full == H5Flat(request.field)
           out == response.array
       IN  IF Len(shape) = 1 \/ request.columns = NoColumns
           THEN /\ response.status = "return"
                /\ out.shape = shape
                /\ out.flat = full
           ELSE ColumnOf(request.columns) < shape[2]
                => /\ response.status = "return"
                   /\ out.shape = <<shape[1]>>
                   /\ Len(out.flat) = shape[1]
                   /\ \A i \in 1..shape[1] :
                        out.flat[i]
                          = full[(i - 1) * shape[2] + ColumnOf(request.columns) + 1]

C9_Witness ==
    /\ Done
    /\ request.op = "get_array_unmasked"
    /\ request.field = CoordinatesField
    /\ request.columns = {1}
    /\ response.status = "return"
    /\ response.array.shape = <<Rows>>
    /\ response.array.flat[2] = Comps + 1

(***************************************************************************)
(* C10.  For every field layout and every column selector, the shape       *)
(* given to a masked read and the shape of the unmasked read of the same   *)
(* field and selector have the same number of dimensions and the same      *)
(* trailing dimensions; only the leading dimension differs.                *)
(***************************************************************************)
C10_MaskedUnmaskedShapeCompatible ==
    (Done /\ request.op = "get_array_masked" /\ response.prim.called)
    => LET unmasked == get_array_unmasked(request.filename, request.field,
                                          request.columns)
       IN  unmasked.status = "return"
           => /\ Len(response.prim.output_shape) = Len(unmasked.array.shape)
              /\ Tail(response.prim.output_shape) = Tail(unmasked.array.shape)

(***************************************************************************)
(* C11.  For a mask whose intervals lie within the rows of the field and   *)
(* whose lengths sum to mask_size, the masked read returns the rows of the *)
(* unmasked read (of the same field and column selector) selected by       *)
(* walking the intervals in the order supplied and concatenating them.     *)
(***************************************************************************)
\* Rows start..end-1 of every interval of an array, in the order of the
\* intervals: the array of those rows.
RECURSIVE SelectedFlat(_, _, _)
SelectedFlat(flat, stride, ranges) ==
    IF ranges = <<>> THEN <<>>
    ELSE SubSeq(flat, Head(ranges)[1] * stride + 1, Head(ranges)[2] * stride)
         \o SelectedFlat(flat, stride, Tail(ranges))

SelectedRows(array, ranges) ==
    NdArray(array.dtype, <<RangeRows(ranges)>> \o Tail(array.shape),
            SelectedFlat(array.flat, Prod(Tail(array.shape)), ranges))

\* The mask of the request: it decodes to intervals within the rows of the
\* field whose lengths sum to mask_size.
MaskWithinBounds ==
    /\ MaskDecodes
    /\ LET mask == load_ndarray_from_json(request.mask_array_json,
                                          request.mask_data_type).array
           ranges == MaskRows(mask)
       IN  /\ mask.dtype.kind # "O"
           /\ mask.shape = <<0>> \/ (Len(mask.shape) = 2 /\ mask.shape[2] = 2)
           /\ \A i \in 1..Len(ranges) :
                /\ 0 <= ranges[i][1]
                /\ ranges[i][1] <= ranges[i][2]
                /\ ranges[i][2] <= Rows
           /\ RangeRows(ranges) = request.mask_size

RequestRanges ==
    MaskRows(load_ndarray_from_json(request.mask_array_json,
                                    request.mask_data_type).array)

C11_MaskedEqualsSelectedRows ==
    (Done /\ request.op \in MaskedOps /\ ReadsExistingFile /\ MaskWithinBounds
          /\ request.field \in {DensityField, SingleField, CoordinatesField,
                                TensorField})
    => LET readAll == get_array_unmasked(ReadPath, request.field, request.columns)
       IN  readAll.status = "return"
           => /\ response.status = "return"
              /\ response.array.shape
                    = SelectedRows(readAll.array, RequestRanges).shape
              /\ response.array.flat
                    = SelectedRows(readAll.array, RequestRanges).flat

(***************************************************************************)
(* C12.  The file opened by a masked or an unmasked read is closed on      *)
(* every exit path (a result, None, or a raise at the probe, at the field  *)
(* lookup or in the range-read primitive): every open is followed by its   *)
(* close within the request, and no handle is open between requests.       *)
(***************************************************************************)
ClosedAfterOpen(events) ==
    /\ Count(events, "open") = Count(events, "close")
    /\ \A i \in 1..Len(events) :
         events[i] = "open" => \E j \in (i + 1)..Len(events) : events[j] = "close"

C12_FileClosedOnEveryExit ==
    /\ phase = "idle" => open_handles = 0
    /\ (Done /\ request.op \in MaskedOps \cup UnmaskedOps)
       => /\ ClosedAfterOpen(response.events)
          /\ open_handles = 0

C12_Witness ==
    /\ Done
    /\ request.op = "get_array_masked"
    /\ request.field = CoordinatesField
    /\ request.mask_array_json = "[[2, 5]]"
    /\ response.status = "raise"
    /\ response.prim.called
    /\ Happened("open")
    /\ Happened("close")
    /\ open_handles = 0

(***************************************************************************)
(* C13.  generate_dict_from_ndarray returns the values of the array as     *)
(* nested sequences mirroring its shape, and the dtype tag of the array    *)
(* with its byte-order marker: "<f4" for a little-endian 4-byte float      *)
(* array, ">f4" for a big-endian one, "|O" for an object array.            *)
(***************************************************************************)
\* Every sequence at depth d of the nested value has length shape[d].
RECURSIVE Mirrors(_, _)
Mirrors(v, shape) ==
    IF shape = <<>> THEN TRUE
    ELSE /\ v.t = "list"
         /\ Len(v.items) = shape[1]
         /\ \A i \in 1..Len(v.items) : Mirrors(v.items[i], Tail(shape))

\* The multi-index (from 1) of the n-th element in row-major order.
RECURSIVE Unravel(_, _)
Unravel(n, shape) ==
    IF shape = <<>> THEN <<>>
    ELSE LET stride == Prod(Tail(shape))
         IN <<((n - 1) \div stride) + 1>>
            \o Unravel(((n - 1) % stride) + 1, Tail(shape))

RECURSIVE ItemAt(_, _)
ItemAt(v, index) ==
    IF index = <<>> THEN v ELSE ItemAt(v.items[Head(index)], Tail(index))

TagOf(dtype) ==
    CASE dtype = Float32 -> "<f4"
      [] dtype = Float32BigEndian -> ">f4"
      [] dtype = Float64 -> "<f8"
      [] dtype = Int64 -> "<i8"
      [] dtype = Object -> "|O"

\* The request ended with the dictionary of an array.
Encoded ==
    /\ Done
    /\ response.status = "return"
    /\ response.kind = "dict"
    /\ Happened("encode")

C13_EncodeMirrorsShapeAndKeepsTag ==
    Encoded
    => LET array == response.array
           values == response.payload.array
       IN  /\ response.payload.dtype = TagOf(array.dtype)
           /\ Mirrors(values, array.shape)
           /\ \A n \in 1..Len(array.flat) :
                LET item == ItemAt(values, Unravel(n, array.shape))
                IN  CASE array.dtype.kind = "O" -> item = array.flat[n]
                      [] array.dtype.kind = "f" -> item = JFloat(array.flat[n])
                      [] OTHER -> item = JInt(array.flat[n])

C13_Witness ==
    /\ Encoded
    /\ request.op = "generate_dict_from_ndarray"
    /\ request.array.dtype = Float32BigEndian
    /\ request.array.shape = <<MaxDim, MaxDim>>
    /\ response.payload.dtype = ">f4"
    /\ response.payload.array.items[2].items[1] = JFloat(request.array.flat[3])

(***************************************************************************)
(* C14.  Round trip: for every array x of a numeric kind, decoding the     *)
(* values and the dtype tag that encoding x gave yields an array of the    *)
(* same shape, the same dtype tag and the same values as x; for an object  *)
(* array the result is structurally equal to x.                            *)
(***************************************************************************)
C14_RoundTrip ==
    (Done /\ request.op = "encode_then_decode")
    => /\ response.status = "return"
       /\ IF request.array.dtype.kind = "O"
          THEN tolist(response.array) = tolist(request.array)
          ELSE /\ response.array.shape = request.array.shape
               /\ dtype_str(response.array.dtype) = dtype_str(request.array.dtype)
               /\ response.array.flat = request.array.flat

(***************************************************************************)
(* C15.  Decoding a well-formed array text with a dtype string numpy does  *)
(* not recognise ("nt64") fails with the SWIFTProcessorError whose message *)
(* begins "Invalid data type"; no array is returned.                       *)
(***************************************************************************)
DecodeOps == {"load_ndarray_from_json", "get_array_masked"}

WellFormedText ==
    /\ Truthy(request.mask_array_json)
    /\ json_loads(request.mask_array_json).exc = ""

C15_UnknownDTypeFails ==
    (Done /\ request.op \in DecodeOps /\ WellFormedText
          /\ request.mask_data_type # None
          /\ np_dtype(request.mask_data_type) = NoDType)
    => /\ Raised("SWIFTProcessorError", 0, InvalidDTypeMsg)
       /\ response.array.isNone

C15_Witness ==
    /\ Done
    /\ request.op = "load_ndarray_from_json"
    /\ request.mask_array_json = "[[337.0], [234.0, 233.0], [355.0]]"
    /\ request.mask_data_type = "nt64"
    /\ response.status = "raise"
    /\ response.msg = InvalidDTypeMsg

(***************************************************************************)
(* C16.  Decoding ragged data (sequences of different lengths at one       *)
(* nesting depth) fails with the SWIFTProcessorError whose message begins  *)
(* "Invalid array data" whenever the dtype is numeric or omitted, and no   *)
(* object array is made of it; when the dtype requests the object kind,    *)
(* ragged or mixed content is accepted as it is.                           *)
(***************************************************************************)
RequestValue == json_loads(request.mask_array_json).value

C16_RaggedFailsUnlessObject ==
    (Done /\ request.op = "load_ndarray_from_json" /\ WellFormedText)
    => LET data_type == request.mask_data_type
           numeric == data_type # None /\ np_dtype(data_type).kind \in {"i", "f"}
           object == data_type # None /\ np_dtype(data_type).kind = "O"
       IN  /\ (~Homogeneous(RequestValue) /\ (numeric \/ data_type = None))
              => /\ Raised("SWIFTProcessorError", 0, InvalidArrayMsg)
                 /\ response.array.isNone
           /\ (~Homogeneous(RequestValue) /\ response.status = "return")
              => object
           /\ object
              => /\ response.status = "return"
                 /\ response.array.dtype = Object
                 /\ tolist(response.array) = RequestValue

C16_Witness ==
    /\ Done
    /\ request.op = "load_ndarray_from_json"
    /\ request.mask_array_json = "[[337.0], [234.0, 233.0], [355.0]]"
    /\ request.mask_data_type = None
    /\ response.status = "raise"
    /\ response.msg = InvalidArrayMsg

(***************************************************************************)
(* The metadata encoder                                                    *)
(***************************************************************************)
\* The kinds of leaf the specification lists for the encoder.
ListedKinds ==
    {"unyt_quantity", "np.ndarray", "np.bytes_", "MassTable",
     "SWIFTParticleTypeMetadata", "np.int32", "np.int64", "datetime"}

IsListedKind(obj) == Bases(obj.cls) \cap ListedKinds # {}

\* What the leaves of the sample are to become.
ExpectedEncoding(obj) ==
    CASE obj = QuantityObj -> JStr("5 Mpc")
      [] obj = UnytArrayObj -> FloatList(<<142, 142, 142>>)
      [] obj = ArrayObj -> IntList(<<1, 2, 3>>)
      [] obj = BytesObj -> JStr("test string")
      [] obj = MassTableObj -> JStr("<MassTable object>")
      [] obj = ParticleTypeObj -> JStr("<SWIFTParticleTypeMetadata object>")
      [] obj = Int32Obj -> JInt(5)
      [] obj = Int64Obj -> JInt(4)
      [] obj = DatetimeObj -> JStr("2023-09-10T12:00:00.550000")
      [] obj = UnitsObj -> JStr("{'mass': unyt_quantity(1.e+10, 'Msun')}")
      [] OTHER -> JNull

DefaultCalled == Done /\ request.op = "default"

FailsWithTypeError == response.status = "raise" /\ response.exc = "TypeError"

Encodes(obj) ==
    /\ response.status = "return"
    /\ response.payload.array = ExpectedEncoding(obj)

\* The sample of the tests: json.dumps with the metadata encoder succeeds,
\* and without it fails with a type error.
SampleDumped ==
    (Done /\ request.op = "json_dumps" /\ request.header = SampleHeader) =>
        IF request.encoder = "SWIFTMetadataEncoder"
        THEN /\ response.status = "return"
             /\ response.payload.array.items[8] = JStr("2023-09-10T12:00:00.550000")
        ELSE FailsWithTypeError

\* C17, as stated: the encoder encodes each leaf of a listed kind as listed,
\* fails with a type error on a leaf of any other kind, and the generic
\* encoder fails with a type error on every one of these objects.
C17_ClosedDispatchAsStated ==
    /\ SampleDumped
    /\ DefaultCalled =>
        IF request.encoder = "JSONEncoder" THEN FailsWithTypeError
        ELSE IF IsListedKind(request.obj) THEN Encodes(request.obj)
        ELSE FailsWithTypeError

\* C17, amended: the set of kinds the encoder encodes also holds the units
\* object, which becomes the text of its attributes; a byte string that is
\* not UTF-8 fails with a decoding error; every listed kind is encoded as
\* listed, a leaf of any other kind fails with a type error, and the generic
\* encoder fails with a type error on every one of these objects.
C17_ClosedDispatch ==
    /\ SampleDumped
    /\ DefaultCalled =>
        IF request.encoder = "JSONEncoder" THEN FailsWithTypeError
        ELSE IF request.obj = UndecodableBytesObj
        THEN response.status = "raise" /\ response.exc = "UnicodeDecodeError"
        ELSE IF IsListedKind(request.obj) \/ isinstance(request.obj, "RemoteSWIFTUnits")
        THEN Encodes(request.obj)
        ELSE FailsWithTypeError

C17_Witness ==
    /\ DefaultCalled
    /\ request.encoder = "SWIFTMetadataEncoder"
    /\ request.obj = UnitsObj
    /\ response.status = "return"
    /\ response.payload.array = JStr("{'mass': unyt_quantity(1.e+10, 'Msun')}")

(***************************************************************************)
(* Building and serialising metadata                                       *)
(***************************************************************************)
MetadataBuilt == Done /\ response.metadata.built

EncodeEvents == {"pickle", "json_dumps"}

\* C18: in the blob form and in the dictionary form, whenever encoding
\* starts the scrub step has run exactly once and before it, and the
\* metadata object holds no live file handle; the scrub never runs after
\* encoding.
C18_ScrubOnceBeforeEncode ==
    MetadataBuilt =>
        \A i \in 1..Len(response.events) :
            response.events[i] \in EncodeEvents =>
                /\ Count(response.events, "scrub") = 1
                /\ \E j \in 1..(i - 1) : response.events[j] = "scrub"
                /\ response.metadata.units.handle # "live"

\* The failures of the leaves of the metadata object under the encoding of
\* the operation: the encoder's default in the dictionary form, pickling in
\* the blob form.
LeafFailures ==
    LET leaves == MetadataDict(response.metadata)
    IN  IF Happened("json_dumps")
        THEN {SWIFTMetadataEncoder_default(leaves[i]) :
                i \in {j \in 1..Len(leaves) :
                         /\ ~IsNative(leaves[j])
                         /\ SWIFTMetadataEncoder_default(leaves[j]).exc # ""}}
        ELSE {cloudpickle_dumps(response.metadata)} \ {EncodeOk(JNull)}

\* C19: if a leaf fails during the serialisation, the operation raises
\* RemoteSWIFTMetadataError with a message that ends with the message of a
\* failure of a leaf, in the blob form and in the dictionary form; what is
\* returned has every leaf encoded.
C19_LeafFailureIsWrapped ==
    MetadataBuilt =>
        /\ LeafFailures # {} =>
            /\ response.status = "raise"
            /\ response.exc = "RemoteSWIFTMetadataError"
            /\ \E failure \in LeafFailures :
                /\ Len(response.msg) = 1 + Len(failure.msg)
                /\ SubSeq(response.msg, 2, Len(response.msg)) = failure.msg
        /\ (response.status = "return" /\ Happened("json_dumps")) =>
            Len(response.payload.array.items) = Len(MetadataDict(response.metadata))

(***************************************************************************)
(* create_unyt_quantities                                                  *)
(***************************************************************************)
UnitsParsed == Done /\ request.op = "create_unyt_quantities"

\* Every string value of the dictionary given is a "<value> <unit>".
WellFormedUnits(dictionary) ==
    /\ \A key \in DOMAIN dictionary \ excluded_fields :
        from_string(dictionary[key]).exc = ""
    /\ \A key \in DOMAIN dictionary.units :
        from_string(dictionary.units[key]).exc = ""

\* C20: create_unyt_quantities on a dictionary of well-formed strings that
\* has the units key returns a dictionary with the same keys at both
\* levels, in which every key but filename and units holds the quantity its
\* string names, every key of the nested units holds the quantity its
\* string names, and filename holds the value given; on a dictionary
\* without the units key it raises SWIFTUnytException, HTTP 400, with the
\* missing key as detail.
C20_ParseUnits ==
    UnitsParsed =>
        LET given == request.swift_unit_dict
            result == response.result
        IN  IF "units" \notin DOMAIN given
            THEN /\ response.status = "raise"
                 /\ response.exc = "SWIFTUnytException"
                 /\ response.code = HTTP_400_BAD_REQUEST
                 /\ response.msg = <<"'units'">>
            ELSE WellFormedUnits(given) =>
                 /\ response.status = "return"
                 /\ DOMAIN result = DOMAIN given
                 /\ DOMAIN result.units = DOMAIN given.units
                 /\ \A key \in DOMAIN given \ excluded_fields :
                     /\ result[key] \in Quantities
                     /\ to_string(result[key]) = given[key]
                 /\ \A key \in DOMAIN given.units :
                     /\ result.units[key] \in Quantities
                     /\ to_string(result.units[key]) = given.units[key]
                 /\ "filename" \in DOMAIN given => result.filename = given.filename

C20_Witness ==
    /\ UnitsParsed
    /\ response.status = "return"
    /\ "filename" \in DOMAIN request.swift_unit_dict
    /\ request.swift_unit_dict.filename = SnapPath
    /\ response.result.filename = SnapPath
    /\ response.result.time = Quantity(977, "Gyr")
    /\ response.result.units.mass = Quantity(10, "kg")

(***************************************************************************)
(* Resolution at the request boundary                                      *)
(***************************************************************************)
\* The detail the handlers' tests expect for an alias that is not mapped.
DatasetAliasNotFoundMsg == <<"SWIFT dataset alias not found in dataset map.">>

AliasNotInMap ==
    /\ Done
    /\ request.op \in FilePathOps
    /\ ~Truthy(request.filename)
    /\ Truthy(request.alias)
    /\ request.alias \notin DOMAIN dataset_map

\* C22: get_file_path for a reference with no filename and an alias that is
\* not in the alias map raises SWIFTDataSpecException, HTTP 400, whose
\* detail says that the alias was not found in the dataset map; the
\* SWIFTProcessorError of the locator does not reach the caller.
C22_AliasNotFoundIsDataSpecError ==
    AliasNotInMap =>
        /\ response.status = "raise"
        /\ response.exc = "SWIFTDataSpecException"
        /\ response.code = HTTP_400_BAD_REQUEST
        /\ response.msg \in {DatasetAliasNotFoundMsg, AliasNotFoundMsg}

NeitherFilenameNorAlias ==
    /\ Done
    /\ request.op \in FilePathOps
    /\ ~Truthy(request.filename)
    /\ ~Truthy(request.alias)

\* C23: a reference with neither a filename nor an alias, each absent or
\* empty, raises SWIFTDataSpecException, HTTP 400, "SWIFT filename or file
\* alias not found."; the alias map is not looked up, the existence of no
\* path is tested and no file is opened.
C23_NoFilenameNoAlias ==
    NeitherFilenameNorAlias =>
        /\ Raised("SWIFTDataSpecException", HTTP_400_BAD_REQUEST, NoFilenameMsg)
        /\ ~Happened("lookup")
        /\ ~Happened("exists")
        /\ ~FileOpened

C23_Witness ==
    /\ NeitherFilenameNorAlias
    /\ request.op = "get_unmasked_array_data"
    /\ request.filename = None
    /\ request.alias = ""
    /\ response.msg = NoFilenameMsg

\* C24: get_array_unmasked on an existing file for a field that is not in
\* it returns None and raises nothing, whatever the column selector.
C24_UnmaskedAbsentFieldYieldsNone ==
    (Done /\ request.op = "get_array_unmasked" /\ PathExists(request.filename)
          /\ request.field = AbsentField)
    => /\ response.status = "return"
       /\ response.kind = "None"
       /\ response.array = NoArray

C24_Witness ==
    /\ Done
    /\ request.op = "get_array_unmasked"
    /\ request.filename = SnapPath
    /\ request.field = AbsentField
    /\ request.columns # NoColumns
    /\ response.status = "return"
    /\ response.kind = "None"
    /\ Happened("log_error")

(***************************************************************************)
(* The mask as the range-read primitive receives it                        *)
(***************************************************************************)
\* The intervals of the mask texts, in the order in which they are written.
IntervalsAsWritten ==
    [text \in {"[[0, 2]]", "[[1, 3], [0, 1]]", "[[0, 2], [1, 2]]", "[[2, 5]]"} |->
        CASE text = "[[0, 2]]" -> <<<<0, 2>>>>
          [] text = "[[1, 3], [0, 1]]" -> <<<<1, 3>>, <<0, 1>>>>
          [] text = "[[0, 2], [1, 2]]" -> <<<<0, 2>>, <<1, 2>>>>
          [] OTHER -> <<<<2, 5>>>>]

MaskedReadOfField ==
    /\ Done
    /\ request.op \in MaskedOps
    /\ MaskDecodes
    /\ ReadsExistingFile
    /\ request.field \in {DensityField, SingleField, CoordinatesField, TensorField}

\* C27: a masked read of a field of the file, whatever the intervals and
\* mask_size, reaches the range-read primitive without a check of the
\* intervals; the primitive is handed the intervals in the order written,
\* overlapping or not, and an output shape whose leading dimension is
\* mask_size, and an array that is returned has mask_size rows.
C27_MaskTrusted ==
    MaskedReadOfField =>
        /\ response.prim.called
        /\ Happened("read_ranges")
        /\ response.prim.output_shape[1] = request.mask_size
        /\ request.mask_array_json \in DOMAIN IntervalsAsWritten =>
            response.prim.mask = IntervalsAsWritten[request.mask_array_json]
        /\ response.status = "return" => response.array.shape[1] = request.mask_size

\* One interval of two rows under a mask_size of three: the array returned
\* has three rows.
C27_Witness ==
    /\ MaskedReadOfField
    /\ request.field = CoordinatesField
    /\ request.mask_array_json = "[[0, 2]]"
    /\ request.mask_size = 3
    /\ response.status = "return"
    /\ response.prim.mask = <<<<0, 2>>>>
    /\ response.prim.written = 2
    /\ response.array.shape[1] = 3

(***************************************************************************)
(* The errors of the decoder                                               *)
(***************************************************************************)
Decoded == Done /\ request.op = "load_ndarray_from_json"

\* C30: load_ndarray_from_json, for every text and every dtype, given or
\* omitted, either returns an array or raises SWIFTProcessorError with one
\* of the messages "Invalid data type provided ..." and "Invalid array data
\* ..."; no other error escapes, also for a text that is not JSON; a
\* top-level mapping under a numeric dtype gives "Invalid data type
\* provided".
C30_OnlyTypedDecodeErrors ==
    Decoded =>
        /\ \/ response.status = "return" /\ response.kind = "ndarray"
           \/ /\ response.status = "raise"
              /\ response.exc = "SWIFTProcessorError"
              /\ response.msg \in {InvalidDTypeMsg, InvalidArrayMsg}
        /\ (request.mask_array_json = "{\"a\": null}"
              /\ request.mask_data_type \in {"int64", "float32", ">f4"})
            => Raised("SWIFTProcessorError", 0, InvalidDTypeMsg)

(***************************************************************************)
(* convert_swift_units_dict_types                                          *)
(***************************************************************************)
UnitsConverted == Done /\ request.op = "convert_swift_units_dict_types"

\* C25: convert_swift_units_dict_types on a dictionary that has the units
\* key returns a dictionary of the same keys in which every value that is
\* no dictionary, and every value of the nested units, is a string, a
\* quantity having become its "<value> <unit>"; on a dictionary without the
\* units key, whatever its other keys, none included, it raises
\* SWIFTUnytException, HTTP 400.
C25_ConvertUnits ==
    UnitsConverted =>
        LET given == request.swift_unit_dict
            result == response.result
        IN  IF "units" \notin KeysOf(given)
            THEN /\ response.status = "raise"
                 /\ response.exc = "SWIFTUnytException"
                 /\ response.code = HTTP_400_BAD_REQUEST
            ELSE /\ response.status = "return"
                 /\ result.keys = given.keys
                 /\ result.items.units.keys = given.items.units.keys
                 /\ \A key \in KeysOf(given) \ {"units"} :
                     /\ result.items[key].cls = "str"
                     /\ given.items[key].cls = "unyt_quantity" =>
                         result.items[key].s
                            = ToString(given.items[key].n) \o " " \o given.items[key].s
                 /\ \A unit \in KeysOf(given.items.units) :
                     /\ result.items.units.items[unit].cls = "str"
                     /\ given.items.units.items[unit].cls = "unyt_quantity" =>
                         result.items.units.items[unit].s
                            = ToString(given.items.units.items[unit].n) \o " "
                                \o given.items.units.items[unit].s

(***************************************************************************)
(* What outlives a request (SpecState)                                     *)
(***************************************************************************)
MetadataConstructed ==
    /\ Done
    /\ request.op \in {"retrieve_metadata", "create_swift_metadata"}
    /\ response.status = "return"

C21_NoSharedMutableState ==
    [][/\ dataset_map' = dataset_map
       /\ metadata_cache' = metadata_cache
       /\ cookies_file' = cookies_file]_vars

AuthenticationDone == Done /\ request.op = "authenticate"

CookiesSaved == Count(response.events, "save_cookies") > 0

\* C26: authenticate returns the status of the upstream answer, 404 when
\* the transport raised; it saves the cookies of the session exactly when
\* that status is 200, so that 401, every other status and a transport
\* exception leave the cookie file as it was; and at any time the cookie
\* file is that of the most recent attempt answered with 200.
C26_CookiesSavedIffOk ==
    /\ cookies_file = last_success
    /\ AuthenticationDone =>
        LET upstream == request.upstream
        IN  /\ response.status = "return"
            /\ response.result = IF upstream.raises THEN HTTP_404_NOT_FOUND
                                 ELSE upstream.status_code
            /\ CookiesSaved <=> (~upstream.raises
                                   /\ upstream.status_code = HTTP_200_OK)
            /\ CookiesSaved => cookies_file = CookiesFile(TRUE, response.session)
            /\ ~CookiesSaved => cookies_file = request.cookies_before

\* An attempt answered with 401 after one that saved the cookie NEWSESSION.
C26_Witness ==
    /\ AuthenticationDone
    /\ ~request.upstream.raises
    /\ request.upstream.status_code = HTTP_401_UNAUTHORIZED
    /\ request.upstream.set_cookie = "TESTSESSION"
    /\ request.cookies_before = CookiesFile(TRUE, "NEWSESSION")
    /\ response.result = HTTP_401_UNAUTHORIZED
    /\ cookies_file = CookiesFile(TRUE, "NEWSESSION")

(***************************************************************************)
(* Token authentication                                                    *)
(***************************************************************************)
TokenDecoded ==
    /\ Done
    /\ \/ request.op = "decode_jwt"
       \/ request.op = "get_authenticated_user" /\ request.authorisation = "Bearer"

ValidToken(token) ==
    /\ token.form = "jwt"
    /\ token.alg = "HS256"
    /\ token.key = "jwt_secret_key"

\* C29: decode_jwt returns the sub claim, and only it, for a token signed
\* with the configured secret under HS256, not expired and with a non-empty
\* sub; for every other token it raises CredentialsException, HTTP 401:
\* "JWT token has expired" for a verified token whose exp is past, "Invalid
\* JWT token" for a malformed token, another algorithm or another key,
\* "Invalid username/password" for a missing or empty sub; and
\* get_authenticated_user raises 401 without decoding when no token comes
\* with the request.
C29_DecodeJwt ==
    /\ TokenDecoded =>
        LET token == request.token
        IN  IF ~ValidToken(token)
            THEN Raised("CredentialsException", HTTP_401_UNAUTHORIZED,
                        <<"Invalid JWT token">>)
            ELSE IF token.exp = "past"
            THEN Raised("CredentialsException", HTTP_401_UNAUTHORIZED,
                        <<"JWT token has expired">>)
            ELSE IF token.sub = None \/ token.sub = ""
            THEN Raised("CredentialsException", HTTP_401_UNAUTHORIZED,
                        <<"Invalid username/password">>)
            ELSE /\ response.status = "return"
                 /\ response.result = token.sub
    /\ (Done /\ request.op = "get_authenticated_user"
             /\ request.authorisation # "Bearer") =>
        /\ response.status = "raise"
        /\ response.exc = "CredentialsException"
        /\ response.code = HTTP_401_UNAUTHORIZED
        /\ Count(response.events, "jwt.decode") = 0

=============================================================================
